---- MODULE Spec2Model ----
(***************************************************************************)
(* A state-machine model of the growth engine of the self-expanding        *)
(* network trainer (src/senn_mlp/experiment2_fixed.py).                    *)
(*                                                                         *)
(* Layer indices are the source's: a template with n slots is a function   *)
(* on 0..n-1.  Python's None is the value None below.  Real-valued         *)
(* quantities (scores, losses, step sizes) are exact rationals kept as     *)
(* integers or integer pairs; a floating-point division x/d is modelled    *)
(* with its IEEE special cases (x/0 is +inf for x > 0 and NaN for x = 0,   *)
(* and every comparison with NaN is false).                                *)
(*                                                                         *)
(* The module holds several specifications over one set of variables: Spec *)
(* (the growth cycle: consider_adding_width / consider_inserting_layer and *)
(* the two apply() methods), SpecIdx (ModelTemplate.in_out_indices as a    *)
(* function of any contents vector), SpecMala (the burst loop of           *)
(* kfac_direct_mala), SpecSgd (the loop of kfac_direct_sgd), SpecCycle (one *)
(* growth cycle run stage by stage), SpecProposer (Proposer.verify_state   *)
(* and Proposer.embed_feature on any parameter state), SpecMain (main():   *)
(* solver construction, checkpoint restore, epoch loop), SpecFeature       *)
(* (make_feature followed by locate_feature), SpecTrain (Solver.train_batch *)
(* and the parameters across a commit), SpecSelect (the candidate features *)
(* of a growth cycle), SpecSampler (one pass of Sampler.batches()) and      *)
(* SpecYaml (modify_yaml_line and run_experiment of the experiment drivers, *)
(* src/senn_mlp/experiment_executer.py and experiment_executer2.py).        *)
(***************************************************************************)
EXTENDS Integers, Sequences, FiniteSets

VARIABLES
    capacities,     \* ModelTemplate.capacities
    contents,       \* ModelTemplate.contents
    state,          \* solver.state, as far as the architecture goes: per layer, dormant and null mask
    input_size,     \* width of the data fed to layer 0
    pc,             \* "idle" | "returned" (None) | "pending" (a modification) | "applied" | "aborted" | "exited"
    modification,   \* the WidthModification / DepthModification returned by the last cycle
    gate,           \* the scores the last consider_* call gated on
    prev_loss,      \* apply(): loss before the commit
    new_loss,       \* apply(): loss after the commit
    save_index,     \* main(): save_index
    just_added,     \* main(): just_added
    ret,            \* the last handler run: [op, layer_index, out]
    conarr,         \* SpecIdx: the contents vector handed to in_out_indices
    site,           \* SpecIdx: layer_index
    io,             \* SpecIdx: the result of in_out_indices
    mala,           \* SpecMala: kfac_direct_mala's State, burst counter and last accept rate
    sgd,            \* SpecSgd: kfac_direct_sgd's State, iteration counter, observations
    cyc,            \* SpecCycle: one growth cycle, stage by stage
    main,           \* SpecMain: main()'s solver construction, checkpoint restore and epoch loop
    feat,           \* SpecFeature: make_feature's arguments and what locate_feature returns
    tb,             \* SpecTrain: the Solver's parameters and optimizer state across train_batch and apply()
    sel,            \* SpecSelect: the candidate features of one growth cycle
    cfgfile,        \* SpecYaml: the lines of the configuration file and run_experiment's position
    samp            \* SpecSampler: a Sampler, its key stream and the batches of one pass

growVars == <<capacities, contents, state, input_size, pc, modification, gate, prev_loss, new_loss, save_index, just_added, ret>>
idxVars == <<conarr, site, io>>
extVars == <<tb, sel, cfgfile, samp>>
auxVars == <<cyc, main, feat, extVars>>
vars == <<growVars, idxVars, mala, sgd, auxVars>>

-----------------------------------------------------------------------------
(* Bounds of the model *)

MaxCap == 4
MaxIn == 2
MaxScore == 2
MaxLen == 4
MaxBursts == 3
MaxIter == 4
MaxMask == 2
MaxEpochs == 3
MaxPos == 2
MaxRuns == 2

(* Values of the program and of its configuration *)

NumLayers == 3

None == -1
OutSize == 2
SaveLimit == 25
ThreshDen == 2
Thresh == 1
AbsThresh == 2
LayerAbsThresh == 1
LayerCostMul == 1
SizeCosting == TRUE
LossValues == {0, 1000, 1001, 1200}

Max(S) == CHOOSE x \in S : \A y \in S : y <= x
Min(S) == CHOOSE x \in S : \A y \in S : x <= y

-----------------------------------------------------------------------------
(* ModelTemplate *)

enabled_layers(con) == {i \in DOMAIN con : con[i] # None}

disabled_layers(con) == {i \in DOMAIN con : con[i] = None}

\* conarr[:split_at][:-1] holds the slots 0..layer_index-1, conarr[split_at:] the
\* slots layer_index+1 and up; subsequent_enabled[0] raises IndexError when that
\* part holds no enabled slot.
in_index_mut(preceding_enabled) == IF preceding_enabled = {} THEN 0 ELSE Max(preceding_enabled) + 2
in_index_of(preceding_enabled) == IF preceding_enabled = {} THEN 0 ELSE Max(preceding_enabled) + 1

in_out_indices_mut(con, layer_index) ==
    LET preceding_enabled == {j \in DOMAIN con : j < layer_index /\ con[j] # None}
        subsequent_enabled == {j \in DOMAIN con : j > layer_index /\ con[j] # None}
    IN  [ok |-> TRUE, in_index |-> in_index_of(preceding_enabled),
         out_index |-> IF subsequent_enabled = {} THEN layer_index + 1 ELSE Min(subsequent_enabled)]
in_out_indices(con, layer_index) ==
    LET split_at == layer_index + 1
        preceding_enabled == {j \in DOMAIN con : j < split_at - 1 /\ con[j] # None}
        subsequent_enabled == {j \in DOMAIN con : j >= split_at /\ con[j] # None}
    IN  IF subsequent_enabled = {}
        THEN [ok |-> FALSE, in_index |-> in_index_of(preceding_enabled), out_index |-> None]
        ELSE [ok |-> TRUE, in_index |-> in_index_of(preceding_enabled), out_index |-> Min(subsequent_enabled)]

nonincreasing_mut(con) == \A i, j \in enabled_layers(con) : i < j => con[i] > con[j]
nonincreasing(con) == \A i, j \in enabled_layers(con) : i < j => con[i] >= con[j]

-----------------------------------------------------------------------------
(* The layers of solver.state (nets.Layer, nets.Layers) *)

count_not_null(null) == Cardinality({k \in DOMAIN null : ~null[k]})

restrict_params(caps, con) ==
    [i \in DOMAIN con |->
        [dormant |-> con[i] = None,
         null |-> [k \in 0..(caps[i] - 1) |-> IF con[i] = None THEN TRUE ELSE k >= con[i]]]]

insert_feature(layer, idx) == [layer EXCEPT !.null[idx] = FALSE]

activate_layer(layer, size) ==
    [dormant |-> FALSE, null |-> [k \in DOMAIN layer.null |-> k >= size]]

\* null.argmax(): the index of the first True entry, 0 when there is none
argmax_last(null) == IF \E k \in DOMAIN null : null[k] THEN Max({k \in DOMAIN null : null[k]}) ELSE 0
argmax(null) == IF \E k \in DOMAIN null : null[k] THEN Min({k \in DOMAIN null : null[k]}) ELSE 0

any(null) == \E k \in DOMAIN null : null[k]

-----------------------------------------------------------------------------
(* Proposer *)

get_input_null(st, insz, layer_index) ==
    IF layer_index = 0 THEN [k \in 0..(insz - 1) |-> FALSE] ELSE st[layer_index - 1].null

embed_feature_ok_mut(st, layer_index) == ~st[layer_index].dormant
embed_feature_ok(st, layer_index) == ~st[layer_index].dormant /\ any(st[layer_index].null)

embed_feature_mut(st, layer_index) == st
embed_feature(st, layer_index) ==
    [st EXCEPT ![layer_index] = insert_feature(st[layer_index], argmax(st[layer_index].null))]

embed_layer_ok_mut(caps, size, layer_index) == TRUE
embed_layer_ok(caps, size, layer_index) == caps[layer_index] - size >= 0

embed_layer(st, size, layer_index) ==
    [st EXCEPT ![layer_index] = activate_layer(st[layer_index], size)]

verify_state_mut(st, con) ==
    \A i \in DOMAIN con : con[i] = count_not_null(st[i].null)
verify_state(st, con) ==
    \A i \in DOMAIN con : con[i] # None => con[i] = count_not_null(st[i].null)

-----------------------------------------------------------------------------
(* Floating-point comparisons of quotients of non-negative numbers *)

\* x / d > t / ThreshDen
ratio_gt(x, d, t) == IF d = 0 THEN x > 0 ELSE ThreshDen * x > t * d

\* new_loss / prev_loss < 1.001
width_loss_ok_mut(prev, new) == IF prev = 0 THEN FALSE ELSE 1000 * new <= 1001 * prev
width_loss_ok(prev, new) == IF prev = 0 THEN FALSE ELSE 1000 * new < 1001 * prev

\* new_loss / prev_loss >= 1.2
depth_loss_worse_mut(prev, new) == IF prev = 0 THEN new > 0 ELSE 10 * new > 12 * prev
depth_loss_worse(prev, new) == IF prev = 0 THEN new > 0 ELSE 10 * new >= 12 * prev

-----------------------------------------------------------------------------
(* The growth cycle: main()'s consider_adding_width, consider_inserting_layer, *)
(* WidthModification.apply and DepthModification.apply                        *)

Sites == 0..(NumLayers - 2)
Scores == 0..MaxScore

NoMod == [kind |-> "none", layer_index |-> None, new_state |-> <<>>]
NoRet == [op |-> "none", layer_index |-> None, out |-> "none"]
NoGate == [kind |-> "none", layer_index |-> None, best_raw |-> 0, layer_score |-> 0, loss_sqnorm |-> 0, cost_mul |-> 1]

\* the values of a specification's unused variables
IdxOff == conarr = <<>> /\ site = 0 /\ io = <<>>

ExtOff == tb = <<>> /\ sel = <<>> /\ cfgfile = <<>> /\ samp = <<>>

AuxOff == cyc = <<>> /\ main = <<>> /\ feat = <<>> /\ ExtOff

GrowOff ==
    /\ capacities = <<>>
    /\ contents = <<>>
    /\ state = <<>>
    /\ input_size = 0
    /\ pc = "off"
    /\ modification = NoMod
    /\ gate = NoGate
    /\ prev_loss = None
    /\ new_loss = None
    /\ save_index = 0
    /\ just_added = FALSE
    /\ ret = NoRet

ValidTemplate(caps, con) ==
    /\ \A i \in DOMAIN con : con[i] = None \/ con[i] <= caps[i]
    /\ caps[NumLayers - 1] = OutSize
    /\ con[NumLayers - 1] = OutSize
    /\ nonincreasing(con)

Init ==
    /\ capacities \in [0..(NumLayers - 1) -> 1..MaxCap]
    /\ contents \in [0..(NumLayers - 1) -> {None} \cup 1..MaxCap]
    /\ ValidTemplate(capacities, contents)
    /\ input_size \in 1..MaxIn
    /\ state = restrict_params(capacities, contents)
    /\ pc = "idle"
    /\ modification = NoMod
    /\ gate = NoGate
    /\ prev_loss = None
    /\ new_loss = None
    /\ save_index = 0
    /\ just_added = FALSE
    /\ ret = NoRet
    /\ IdxOff
    /\ mala = <<>>
    /\ sgd = <<>>
    /\ AuxOff

going_to_add_mut(best_raw, layer_score, loss_sqnorm) ==
    ratio_gt(best_raw, layer_score, Thresh) \/ ratio_gt(best_raw, loss_sqnorm, AbsThresh)
going_to_add(best_raw, layer_score, loss_sqnorm) ==
    ratio_gt(best_raw, layer_score, Thresh) /\ ratio_gt(best_raw, loss_sqnorm, AbsThresh)

new_layer_size(st, insz, in_index) == count_not_null(get_input_null(st, insz, in_index))

cost_mul_of(size) == IF SizeCosting THEN LayerCostMul * size ELSE LayerCostMul

layer_gate(best_raw, cost_mul, vlayer_score, loss_sqnorm) ==
    ratio_gt(best_raw, cost_mul * vlayer_score, Thresh) /\ ratio_gt(best_raw, cost_mul * loss_sqnorm, LayerAbsThresh)

\* The growth cycles modelled are those of an epoch that is neither the first nor
\* the last one of the run: main()'s is_final is false.
is_final == FALSE

consider_adding_width(layer_index, final, best_raw, layer_score, loss_sqnorm) ==
    LET inout == in_out_indices(contents, layer_index)
        adding == going_to_add(best_raw, layer_score, loss_sqnorm)
        saving == (adding \/ just_added \/ final) /\ layer_index = 0
        saved == IF saving THEN save_index + 1 ELSE save_index
    IN  /\ pc = "idle"
        /\ layer_index \in Sites
        /\ contents[layer_index] # None
        /\ gate' = [kind |-> "width", layer_index |-> layer_index, best_raw |-> best_raw,
                    layer_score |-> layer_score, loss_sqnorm |-> loss_sqnorm, cost_mul |-> 1]
        /\ prev_loss' = None
        /\ new_loss' = None
        /\ IF ~inout.ok
           THEN /\ pc' = "aborted"
                /\ ret' = [op |-> "consider_adding_width", layer_index |-> layer_index, out |-> "IndexError"]
                /\ modification' = NoMod
                /\ UNCHANGED <<save_index, just_added>>
           ELSE /\ save_index' = saved
                /\ just_added' = IF saving THEN FALSE ELSE just_added
                /\ IF saving /\ saved >= SaveLimit
                   THEN /\ pc' = "exited"
                        /\ ret' = [op |-> "consider_adding_width", layer_index |-> layer_index, out |-> "exit"]
                        /\ modification' = NoMod
                   ELSE IF adding
                   THEN IF embed_feature_ok(state, layer_index)
                        THEN /\ pc' = "pending"
                             /\ ret' = [op |-> "consider_adding_width", layer_index |-> layer_index, out |-> "WidthModification"]
                             /\ modification' = [kind |-> "width", layer_index |-> layer_index,
                                                 new_state |-> embed_feature(state, layer_index)]
                        ELSE /\ pc' = "aborted"
                             /\ ret' = [op |-> "consider_adding_width", layer_index |-> layer_index, out |-> "AssertionError"]
                             /\ modification' = NoMod
                   ELSE /\ pc' = "returned"
                        /\ ret' = [op |-> "consider_adding_width", layer_index |-> layer_index, out |-> "None"]
                        /\ modification' = NoMod
        /\ UNCHANGED <<capacities, contents, state, input_size>>

consider_inserting_layer(layer_index, best_raw, vlayer_score, loss_sqnorm) ==
    LET inout == in_out_indices(contents, layer_index)
        size == new_layer_size(state, input_size, inout.in_index)
        cost_mul == cost_mul_of(size)
    IN  /\ pc = "idle"
        /\ layer_index \in Sites
        /\ contents[layer_index] = None
        /\ gate' = [kind |-> "depth", layer_index |-> layer_index, best_raw |-> best_raw,
                    layer_score |-> vlayer_score, loss_sqnorm |-> loss_sqnorm,
                    cost_mul |-> IF inout.ok THEN cost_mul ELSE 1]
        /\ prev_loss' = None
        /\ new_loss' = None
        /\ IF ~inout.ok
           THEN /\ pc' = "aborted"
                /\ ret' = [op |-> "consider_inserting_layer", layer_index |-> layer_index, out |-> "IndexError"]
                /\ modification' = NoMod
           ELSE IF layer_gate(best_raw, cost_mul, vlayer_score, loss_sqnorm)
           THEN IF embed_layer_ok(capacities, size, layer_index)
                THEN /\ pc' = "pending"
                     /\ ret' = [op |-> "consider_inserting_layer", layer_index |-> layer_index, out |-> "DepthModification"]
                     /\ modification' = [kind |-> "depth", layer_index |-> layer_index,
                                         new_state |-> embed_layer(state, size, layer_index)]
                ELSE /\ pc' = "aborted"
                     /\ ret' = [op |-> "consider_inserting_layer", layer_index |-> layer_index, out |-> "AssertionError"]
                     /\ modification' = NoMod
           ELSE /\ pc' = "returned"
                /\ ret' = [op |-> "consider_inserting_layer", layer_index |-> layer_index, out |-> "None"]
                /\ modification' = NoMod
        /\ UNCHANGED <<capacities, contents, state, input_size, save_index, just_added>>

\* refresh_evaluators(): in_out_indices of every dormant slot but the last
refresh_evaluators_ok(con) ==
    \A i \in DOMAIN con : (i < NumLayers - 1 /\ con[i] = None) => in_out_indices(con, i).ok

new_width_size_mut(con, layer_index) == con[layer_index]
new_width_size(con, layer_index) == con[layer_index] + 1

new_depth_size_mut(con, insz, layer_index) == insz
new_depth_size(con, insz, layer_index) == IF layer_index > 0 THEN con[layer_index - 1] ELSE insz

WidthModification_apply(prev, new) ==
    LET layer_index == modification.layer_index
        con == [contents EXCEPT ![layer_index] = new_width_size(contents, layer_index)]
    IN  /\ pc = "pending"
        /\ modification.kind = "width"
        /\ IF contents[layer_index] = None
           THEN /\ pc' = "aborted"
                /\ ret' = [op |-> "WidthModification.apply", layer_index |-> layer_index, out |-> "AssertionError"]
                /\ UNCHANGED <<contents, state, prev_loss, new_loss>>
           ELSE /\ prev_loss' = prev
                /\ state' = modification.new_state
                /\ contents' = con
                /\ IF ~refresh_evaluators_ok(con)
                   THEN /\ pc' = "aborted"
                        /\ ret' = [op |-> "WidthModification.apply", layer_index |-> layer_index, out |-> "IndexError"]
                        /\ new_loss' = None
                   ELSE /\ new_loss' = new
                        /\ IF width_loss_ok(prev, new)
                           THEN /\ pc' = "applied"
                                /\ ret' = [op |-> "WidthModification.apply", layer_index |-> layer_index, out |-> "ok"]
                           ELSE /\ pc' = "aborted"
                                /\ ret' = [op |-> "WidthModification.apply", layer_index |-> layer_index, out |-> "adding width made loss worse"]
        /\ modification' = NoMod
        /\ gate' = NoGate
        /\ UNCHANGED <<capacities, input_size, save_index, just_added>>

DepthModification_apply(prev, new) ==
    LET layer_index == modification.layer_index
        con == [contents EXCEPT ![layer_index] = new_depth_size(contents, input_size, layer_index)]
    IN  /\ pc = "pending"
        /\ modification.kind = "depth"
        /\ IF contents[layer_index] # None
           THEN /\ pc' = "aborted"
                /\ ret' = [op |-> "DepthModification.apply", layer_index |-> layer_index, out |-> "AssertionError"]
                /\ UNCHANGED <<contents, state, prev_loss, new_loss>>
           ELSE /\ prev_loss' = prev
                /\ state' = modification.new_state
                /\ contents' = con
                /\ IF ~refresh_evaluators_ok(con)
                   THEN /\ pc' = "aborted"
                        /\ ret' = [op |-> "DepthModification.apply", layer_index |-> layer_index, out |-> "IndexError"]
                        /\ new_loss' = None
                   ELSE /\ new_loss' = new
                        /\ IF depth_loss_worse(prev, new)
                           THEN /\ pc' = "aborted"
                                /\ ret' = [op |-> "DepthModification.apply", layer_index |-> layer_index, out |-> "adding layer made loss worse"]
                           ELSE /\ pc' = "applied"
                                /\ ret' = [op |-> "DepthModification.apply", layer_index |-> layer_index, out |-> "ok"]
        /\ modification' = NoMod
        /\ gate' = NoGate
        /\ UNCHANGED <<capacities, input_size, save_index, just_added>>

ConsiderAddingWidth ==
    \E layer_index \in Sites, best_raw \in Scores, layer_score \in Scores, loss_sqnorm \in Scores :
        /\ consider_adding_width(layer_index, is_final, best_raw, layer_score, loss_sqnorm)
        /\ UNCHANGED <<idxVars, mala, sgd, auxVars>>

ConsiderInsertingLayer ==
    \E layer_index \in Sites, best_raw \in Scores, vlayer_score \in Scores, loss_sqnorm \in Scores :
        /\ consider_inserting_layer(layer_index, best_raw, vlayer_score, loss_sqnorm)
        /\ UNCHANGED <<idxVars, mala, sgd, auxVars>>

WidthApply ==
    \E prev \in LossValues, new \in LossValues :
        /\ WidthModification_apply(prev, new)
        /\ UNCHANGED <<idxVars, mala, sgd, auxVars>>

DepthApply ==
    \E prev \in LossValues, new \in LossValues :
        /\ DepthModification_apply(prev, new)
        /\ UNCHANGED <<idxVars, mala, sgd, auxVars>>

\* the cycle is over: its locals are dropped and the next cycle may start
EndCycle ==
    /\ pc \in {"returned", "applied"}
    /\ pc' = "idle"
    /\ ret' = NoRet
    /\ gate' = NoGate
    /\ prev_loss' = None
    /\ new_loss' = None
    /\ UNCHANGED <<capacities, contents, state, input_size, modification, save_index, just_added>>
    /\ UNCHANGED <<idxVars, mala, sgd, auxVars>>

Next == ConsiderAddingWidth \/ ConsiderInsertingLayer \/ WidthApply \/ DepthApply \/ EndCycle

Spec == Init /\ [][Next]_vars

-----------------------------------------------------------------------------
(* SpecIdx: ModelTemplate.in_out_indices on any contents vector *)

NoIo == [called |-> FALSE, ok |-> FALSE, in_index |-> None, out_index |-> None]

InitIdx ==
    /\ \E len \in 1..MaxLen :
        /\ conarr \in [0..(len - 1) -> {None} \cup 1..MaxCap]
        /\ site \in 0..(len - 1)
    /\ io = NoIo
    /\ GrowOff
    /\ mala = <<>>
    /\ sgd = <<>>
    /\ AuxOff

CallInOutIndices ==
    /\ ~io.called
    /\ LET r == in_out_indices(conarr, site)
       IN  io' = [called |-> TRUE, ok |-> r.ok, in_index |-> r.in_index, out_index |-> r.out_index]
    /\ UNCHANGED <<conarr, site, growVars, mala, sgd, auxVars>>

NextIdx == CallInOutIndices

SpecIdx == InitIdx /\ [][NextIdx]_vars

-----------------------------------------------------------------------------
(* SpecMala: the burst loop of kfac_direct_mala.  A step size is the rational *)
(* lr_num / lr_den; the acceptance rate of a burst of MalaSteps Langevin      *)
(* steps is accepted / MalaSteps.                                             *)

MalaSteps == 10
TargetTenths == 6
ToleranceTenths == 3
FactorTenths == 13

InitialLr == {<<1, 1>>, <<3, 10>>}

Abs(x) == IF x < 0 THEN -x ELSE x

\* accept_rate > TARGET
above_target(accepted) == 10 * accepted > TargetTenths * MalaSteps

\* jnp.abs(accept_rate - TARGET) > 0.3
out_of_band_mut(accepted) == Abs(10 * accepted - TargetTenths * MalaSteps) >= ToleranceTenths * MalaSteps
out_of_band(accepted) == Abs(10 * accepted - TargetTenths * MalaSteps) > ToleranceTenths * MalaSteps

changed_lr(st, accepted) ==
    IF above_target(accepted)
    THEN [num |-> st.lr_num * FactorTenths, den |-> st.lr_den * 10]
    ELSE [num |-> st.lr_num * 10, den |-> st.lr_den * FactorTenths]

new_lr(st, accepted) ==
    IF out_of_band(accepted) THEN changed_lr(st, accepted) ELSE [num |-> st.lr_num, den |-> st.lr_den]

InitMala ==
    /\ \E lr \in InitialLr, steps \in 1..MaxBursts :
        mala = [lr_num |-> lr[1], lr_den |-> lr[2], rscore |-> 0, i |-> 0, steps |-> steps, accepted |-> None]
    /\ GrowOff
    /\ IdxOff
    /\ sgd = <<>>
    /\ AuxOff

\* fun(state, key): one burst, then the step-size controller
mala_fun(accepted, new_rscore) ==
    /\ mala # <<>>
    /\ mala.i < mala.steps
    /\ LET lr == new_lr(mala, accepted)
       IN  mala' = [mala EXCEPT !.lr_num = lr.num, !.lr_den = lr.den, !.rscore = new_rscore,
                                !.i = @ + 1, !.accepted = accepted]
    /\ UNCHANGED <<growVars, idxVars, sgd, auxVars>>

MalaBurst == \E accepted \in 0..MalaSteps, new_rscore \in Scores : mala_fun(accepted, new_rscore)

NextMala == MalaBurst

SpecMala == InitMala /\ [][NextMala]_vars

-----------------------------------------------------------------------------
(* SpecSgd: the loop of kfac_direct_sgd.  Step sizes are integers in a unit  *)
(* in which the eps passed in is a multiple of 3; r-scores are non-negative  *)
(* (the r-score is the trace of a product of positive semidefinite           *)
(* matrices).  rscore_rose and eps_rose observe the run: whether some        *)
(* iteration's r-score was strictly above the iteration before it, and       *)
(* whether some iteration left a step size strictly above the one it started *)
(* with.                                                                     *)

InitialEps == {3, 9}

\* new_rscore / state.rscore > 1.0
rscore_increased_mut(new_rscore, rscore) == IF rscore = 0 THEN new_rscore > 0 ELSE new_rscore >= rscore
rscore_increased(new_rscore, rscore) == IF rscore = 0 THEN new_rscore > 0 ELSE new_rscore > rscore

\* jnp.where(rscore_increased, eps, eps / 3.0), eps being kfac_direct_sgd's argument
next_eps(st, new_rscore) ==
    IF rscore_increased(new_rscore, st.rscore) THEN st.eps_arg ELSE st.eps_arg \div 3

InitSgd ==
    /\ \E eps \in InitialEps, steps \in 1..MaxIter :
        sgd = [eps_arg |-> eps, eps |-> eps, rscore |-> 0, i |-> 0, steps |-> steps,
               rscore_rose |-> FALSE, eps_rose |-> FALSE]
    /\ GrowOff
    /\ IdxOff
    /\ mala = <<>>
    /\ AuxOff

body_fun(new_rscore) ==
    /\ sgd # <<>>
    /\ sgd.i < sgd.steps
    /\ LET e == next_eps(sgd, new_rscore)
       IN  sgd' = [sgd EXCEPT !.eps = e, !.rscore = new_rscore, !.i = @ + 1,
                              !.rscore_rose = @ \/ (sgd.i > 0 /\ new_rscore > sgd.rscore),
                              !.eps_rose = @ \/ e > sgd.eps]
    /\ UNCHANGED <<growVars, idxVars, mala, auxVars>>

SgdIteration == \E new_rscore \in Scores : body_fun(new_rscore)

NextSgd == SgdIteration

SpecSgd == InitSgd /\ [][NextSgd]_vars

-----------------------------------------------------------------------------
(* Properties of the growth cycle, checked under Spec *)

WidthCommitStep == pc = "pending" /\ modification.kind = "width" /\ pc' # "pending"
DepthCommitStep == pc = "pending" /\ modification.kind = "depth" /\ pc' # "pending"

FlippedEntries(i) == {k \in DOMAIN state[i].null : state'[i].null[k] # state[i].null[k]}

\* C1: a width commit at layer i raises contents[i] by exactly 1, leaves every
\* other slot's content alone, and changes layer i's null mask in exactly one
\* entry: the lowest-index null entry, which becomes active.
C1_WidthCommit ==
    [][WidthCommitStep =>
        LET i == modification.layer_index
        IN  /\ contents[i] # None
            /\ contents'[i] = contents[i] + 1
            /\ \A j \in DOMAIN contents : j # i => contents'[j] = contents[j]
            /\ Cardinality(FlippedEntries(i)) = 1
            /\ \A k \in FlippedEntries(i) :
                /\ state[i].null[k]
                /\ ~state'[i].null[k]
                /\ \A m \in DOMAIN state[i].null : m < k => ~state[i].null[m]]_vars

C1_Witness ==
    /\ ret.op = "WidthModification.apply"
    /\ ret.out = "ok"
    /\ ret.layer_index = 0
    /\ capacities[0] = 4
    /\ contents[0] = 4
    /\ state[0].null = [k \in 0..3 |-> FALSE]

NotNullCounts(st, con, bump) ==
    \A j \in DOMAIN con : con[j] # None => Cardinality({k \in DOMAIN st[j].null : ~st[j].null[k]}) = con[j] + bump[j]

\* C2 as stated: the state embed_feature returns satisfies count(not null) ==
\* content for every enabled slot of the template (the template as it is when
\* embed_feature returns).
C2_Original ==
    (pc = "pending" /\ modification.kind = "width") =>
        NotNullCounts(modification.new_state, contents, [j \in DOMAIN contents |-> 0])

\* C2: the state embed_feature returns for layer i has count(not null) ==
\* content at every enabled slot but i and count(not null) == content + 1 at i;
\* once WidthModification.apply has raised contents[i], count(not null) ==
\* content holds for every enabled slot of the live state.
C2_EmbedFeatureCounts ==
    /\ (pc = "pending" /\ modification.kind = "width") =>
        NotNullCounts(modification.new_state, contents,
                      [j \in DOMAIN contents |-> IF j = modification.layer_index THEN 1 ELSE 0])
    /\ ret.op = "WidthModification.apply" =>
        NotNullCounts(state, contents, [j \in DOMAIN contents |-> 0])

C2_Witness ==
    /\ pc = "pending"
    /\ modification.kind = "width"
    /\ modification.layer_index = 1
    /\ contents[1] = 2
    /\ \E k \in DOMAIN state[1].null : state[1].null[k] /\ ~modification.new_state[1].null[k]

\* C3: in every reachable state each enabled slot's content is at most the
\* slot's capacity.
C3_ContentWithinCapacity ==
    \A i \in DOMAIN contents : contents[i] # None => contents[i] <= capacities[i]

C3_Witness ==
    /\ ret.op = "DepthModification.apply"
    /\ ret.out = "ok"
    /\ contents[ret.layer_index] = capacities[ret.layer_index]
    /\ \E j \in Sites : j # ret.layer_index /\ contents[j] = capacities[j] /\ contents[j] > 2

\* C8 as stated: with capacities [4,2] and contents [2, None] for the hidden
\* slots, a depth commit at layer 1 sets contents[1] to the input width of
\* layer 0 and leaves contents[0] alone.
C8_Original ==
    [][(DepthCommitStep /\ modification.layer_index = 1 /\ capacities[0] = 4 /\ capacities[1] = 2
            /\ contents[0] = 2 /\ contents[1] = None) =>
        (contents'[1] = input_size /\ contents'[0] = contents[0])]_vars

\* C8: with capacities [4,2] and contents [2, None] for the hidden slots, a depth
\* commit at layer 1 yields contents [2, 2]: the new content is contents[0], the
\* width of layer 0 (the input width of layer 1), whatever the input width of
\* layer 0 is; contents[0] is unchanged.
C8_DepthCommitSize ==
    [][(DepthCommitStep /\ modification.layer_index = 1 /\ capacities[0] = 4 /\ capacities[1] = 2
            /\ contents[0] = 2 /\ contents[1] = None) =>
        (contents'[1] = 2 /\ contents'[1] = contents[0] /\ contents'[0] = contents[0]
            /\ contents'[2] = contents[2])]_vars

C8_Witness ==
    /\ ret.op = "DepthModification.apply"
    /\ ret.layer_index = 1
    /\ ret.out = "ok"
    /\ capacities[0] = 4
    /\ capacities[1] = 2
    /\ contents[0] = 2
    /\ contents[1] = 2
    /\ input_size = 1

\* C9 as stated: DepthModification.apply completes normally iff the new loss
\* does not exceed 1.2 times the previous loss.
C9_Original ==
    ret.op = "DepthModification.apply" =>
        (ret.out = "ok" <=> 10 * new_loss <= 12 * prev_loss)

\* C9: DepthModification.apply completes normally iff the new loss is strictly
\* below 1.2 times the previous loss, or both losses are 0 (the ratio is NaN);
\* otherwise it fails with 'adding layer made loss worse'.  A ratio of exactly
\* 1.2 fails.
C9_DepthLossCheck ==
    ret.op = "DepthModification.apply" =>
        /\ ret.out \in {"ok", "adding layer made loss worse"}
        /\ ret.out = "ok" <=> (10 * new_loss < 12 * prev_loss \/ (prev_loss = 0 /\ new_loss = 0))

C9_Witness ==
    /\ ret.op = "DepthModification.apply"
    /\ ret.out = "adding layer made loss worse"
    /\ prev_loss = 1000
    /\ new_loss = 1200

\* x / d > t / ThreshDen for non-negative x and d, as the floating-point
\* comparison decides it
Exceeds(x, d, t) == (d = 0 /\ x > 0) \/ (d > 0 /\ ThreshDen * x > t * d)

WidthGatesExceeded ==
    /\ Exceeds(gate.best_raw, gate.layer_score, Thresh)
    /\ Exceeds(gate.best_raw, gate.loss_sqnorm, AbsThresh)

DepthGatesExceeded ==
    /\ Exceeds(gate.best_raw, gate.cost_mul * gate.layer_score, Thresh)
    /\ Exceeds(gate.best_raw, gate.cost_mul * gate.loss_sqnorm, LayerAbsThresh)

-----------------------------------------------------------------------------
(* in_out_indices, checked under SpecIdx *)

\* C4: for every contents vector and every site i with an enabled slot after
\* it, in_out_indices(i) returns (in_index, out_index) with
\* in_index <= i < out_index and contents[out_index] not None.
C4_InOutIndices ==
    (io.called /\ \E j \in DOMAIN conarr : j > site /\ conarr[j] # None) =>
        /\ io.ok
        /\ io.in_index <= site
        /\ site < io.out_index
        /\ io.out_index \in DOMAIN conarr
        /\ conarr[io.out_index] # None

C4_Witness ==
    /\ io.called
    /\ io.ok
    /\ site = 2
    /\ DOMAIN conarr = 0..3
    /\ conarr[1] # None
    /\ conarr[2] = None
    /\ conarr[3] # None
    /\ io.in_index = 2
    /\ io.out_index = 3

-----------------------------------------------------------------------------
(* The MALA step-size controller, checked under SpecMala *)

MalaBurstStep == mala'.i = mala.i + 1

RECURSIVE Gcd(_, _)
Gcd(a, b) == IF b = 0 THEN a ELSE Gcd(b, a % b)

\* an / ad = bn / bd, for positive numbers: the two fractions have the same
\* lowest terms
SameRatio(an, ad, bn, bd) ==
    /\ an \div Gcd(an, ad) = bn \div Gcd(bn, bd)
    /\ ad \div Gcd(an, ad) = bd \div Gcd(bn, bd)

\* C5: after a burst with acceptance rate r and step size lr the next step size
\* is lr*1.3 (strictly larger) if r > 0.9, lr/1.3 (strictly smaller) if r < 0.3,
\* and exactly lr otherwise, r = 0.3 and r = 0.9 included.
C5_MalaController ==
    [][MalaBurstStep =>
        LET a == mala'.accepted
        IN  /\ 10 * a > 9 * MalaSteps =>
                /\ SameRatio(10 * mala'.lr_num, mala'.lr_den, 13 * mala.lr_num, mala.lr_den)
                /\ mala'.lr_num * mala.lr_den > mala.lr_num * mala'.lr_den
            /\ 10 * a < 3 * MalaSteps =>
                /\ SameRatio(13 * mala'.lr_num, mala'.lr_den, 10 * mala.lr_num, mala.lr_den)
                /\ mala'.lr_num * mala.lr_den < mala.lr_num * mala'.lr_den
            /\ (10 * a >= 3 * MalaSteps /\ 10 * a <= 9 * MalaSteps) =>
                /\ mala'.lr_num = mala.lr_num
                /\ mala'.lr_den = mala.lr_den]_vars

C5_Witness ==
    /\ mala.i = 2
    /\ mala.accepted = 9
    /\ mala.lr_num = 3 * 13
    /\ mala.lr_den = 10 * 10

-----------------------------------------------------------------------------
(* The deterministic optimizer's step size, checked under SpecSgd *)

\* C6 as stated: the step size is a ratchet; it never increases from one
\* iteration to a later one within a run.
C6_Original == ~sgd.eps_rose

\* C7: in a run in which the r-score never strictly increases between
\* consecutive iterations, the sequence of step sizes is non-increasing.
C7_NonIncreasingSteps == ~sgd.rscore_rose => ~sgd.eps_rose

C7_Witness ==
    /\ sgd.i = 3
    /\ ~sgd.rscore_rose
    /\ sgd.rscore = 1
    /\ sgd.eps_arg = 9
    /\ sgd.eps = 3

-----------------------------------------------------------------------------
(* SpecCycle: one growth cycle (consider_adding_width or                     *)
(* consider_inserting_layer, then the returned modification's apply()), one  *)
(* step per stage, in the order of the statements of the source.  cyc.log is *)
(* the sequence of the stages run so far.  The stages:                       *)
(*   propose      generate_feature for every candidate                       *)
(*   observe      kfac_observe, called by the evaluator on the candidates    *)
(*   refine       the evaluator's burst loop; yields layer_score, loss_sqnorm *)
(*   select       the categorical draw and best_raw                          *)
(*   validate     the validator (kfac_direct_eval) on the selected candidate *)
(*   gate         the two threshold comparisons                              *)
(*   embed        embed_feature / embed_layer building new_state             *)
(*   prev_loss    apply(): the training loss before the commit               *)
(*   commit       apply(): solver.state and template.contents are replaced   *)
(*   new_loss     apply(): the training loss on the new state                *)
(*   sanity_check apply(): the assertion on new_loss / prev_loss             *)
(* The landscape bookkeeping of layer 0 is part of Spec, not of this one.    *)

CycleStages ==
    <<"propose", "observe", "refine", "select", "validate", "gate", "embed",
      "prev_loss", "commit", "new_loss", "sanity_check", "done">>

StageIndex(stage) == CHOOSE k \in 1..Len(CycleStages) : CycleStages[k] = stage

stage_after_mut(stage) ==
    IF stage = "select" THEN "gate"
    ELSE IF stage = "gate" THEN "validate"
    ELSE IF stage = "validate" THEN "embed"
    ELSE CycleStages[StageIndex(stage) + 1]
stage_after(stage) == CycleStages[StageIndex(stage) + 1]

InitCycle ==
    /\ \E kind \in {"width", "depth"}, size \in 1..MaxCap, room \in BOOLEAN :
        cyc = [kind |-> kind, pc |-> "propose", log |-> <<>>,
               cost_mul |-> IF kind = "depth" THEN cost_mul_of(size) ELSE 1,
               room |-> room, layer_score |-> None, loss_sqnorm |-> None, best_raw |-> None,
               vlayer_score |-> None, passed |-> FALSE, prev |-> None, new |-> None]
    /\ GrowOff
    /\ IdxOff
    /\ mala = <<>>
    /\ sgd = <<>>
    /\ main = <<>>
    /\ feat = <<>>
    /\ ExtOff

\* a stage has run: it is logged and control moves to the statement after it
Ran(stage, c) == [c EXCEPT !.log = Append(@, stage), !.pc = stage_after(stage)]

CycleFrame == UNCHANGED <<growVars, idxVars, mala, sgd, main, feat, extVars>>

Propose ==
    /\ cyc # <<>>
    /\ cyc.pc = "propose"
    /\ cyc' = Ran("propose", cyc)
    /\ CycleFrame

Observe ==
    /\ cyc # <<>>
    /\ cyc.pc = "observe"
    /\ cyc' = Ran("observe", cyc)
    /\ CycleFrame

Refine ==
    /\ cyc # <<>>
    /\ cyc.pc = "refine"
    /\ \E layer_score \in Scores, loss_sqnorm \in Scores :
        cyc' = Ran("refine", [cyc EXCEPT !.layer_score = layer_score, !.loss_sqnorm = loss_sqnorm])
    /\ CycleFrame

Select ==
    /\ cyc # <<>>
    /\ cyc.pc = "select"
    /\ \E best_raw \in Scores : cyc' = Ran("select", [cyc EXCEPT !.best_raw = best_raw])
    /\ CycleFrame

Validate ==
    /\ cyc # <<>>
    /\ cyc.pc = "validate"
    /\ \E vlayer_score \in Scores : cyc' = Ran("validate", [cyc EXCEPT !.vlayer_score = vlayer_score])
    /\ CycleFrame

gate_passes(c) ==
    IF c.kind = "width"
    THEN going_to_add(c.best_raw, c.layer_score, c.loss_sqnorm)
    ELSE layer_gate(c.best_raw, c.cost_mul, c.vlayer_score, c.loss_sqnorm)

Gate ==
    /\ cyc # <<>>
    /\ cyc.pc = "gate"
    /\ LET passes == gate_passes(cyc)
           c == Ran("gate", [cyc EXCEPT !.passed = passes])
       IN  cyc' = IF passes THEN c ELSE [c EXCEPT !.pc = "returned"]
    /\ CycleFrame

Embed ==
    /\ cyc # <<>>
    /\ cyc.pc = "embed"
    /\ cyc' = IF cyc.room THEN Ran("embed", cyc)
              ELSE [cyc EXCEPT !.log = Append(@, "embed"), !.pc = "aborted"]
    /\ CycleFrame

PrevLoss ==
    /\ cyc # <<>>
    /\ cyc.pc = "prev_loss"
    /\ \E prev \in LossValues : cyc' = Ran("prev_loss", [cyc EXCEPT !.prev = prev])
    /\ CycleFrame

Commit ==
    /\ cyc # <<>>
    /\ cyc.pc = "commit"
    /\ cyc' = Ran("commit", cyc)
    /\ CycleFrame

NewLoss ==
    /\ cyc # <<>>
    /\ cyc.pc = "new_loss"
    /\ \E new \in LossValues : cyc' = Ran("new_loss", [cyc EXCEPT !.new = new])
    /\ CycleFrame

sanity_check_ok(c) ==
    IF c.kind = "width" THEN width_loss_ok(c.prev, c.new) ELSE ~depth_loss_worse(c.prev, c.new)

SanityCheck ==
    /\ cyc # <<>>
    /\ cyc.pc = "sanity_check"
    /\ cyc' = IF sanity_check_ok(cyc) THEN Ran("sanity_check", cyc)
              ELSE [cyc EXCEPT !.log = Append(@, "sanity_check"), !.pc = "aborted"]
    /\ CycleFrame

NextCycle ==
    \/ Propose \/ Observe \/ Refine \/ Select \/ Validate \/ Gate \/ Embed
    \/ PrevLoss \/ Commit \/ NewLoss \/ SanityCheck

SpecCycle == InitCycle /\ [][NextCycle]_vars

-----------------------------------------------------------------------------
(* The order of the stages, checked under SpecCycle *)

Done(stage) == \E k \in 1..Len(cyc.log) : cyc.log[k] = stage

Pos(stage) == CHOOSE k \in 1..Len(cyc.log) : cyc.log[k] = stage

Before(a, b) == Done(b) => (Done(a) /\ Pos(a) < Pos(b))

InOrder(order) == \A i, j \in 1..Len(order) : i < j => Before(order[i], order[j])

OnceEach == \A i, j \in 1..Len(cyc.log) : cyc.log[i] = cyc.log[j] => i = j

\* C11 as stated: the stages run in the order Observe, Propose, Refine, Select,
\* Validate, Gate, Commit, Sanity-check, and Commit and Sanity-check only after
\* the gate passed.
C11_Original ==
    /\ InOrder(<<"observe", "propose", "refine", "select", "validate", "gate", "commit", "sanity_check">>)
    /\ (Done("commit") \/ Done("sanity_check")) => cyc.passed

\* C11: the stages run in the order Propose, Observe, Refine, Select, Validate,
\* Gate, Commit, Sanity-check: the curvature is observed (kfac_observe, inside
\* the evaluator) after the candidates were proposed.  Each stage runs at most
\* once and only after the one before it has run, Validate runs before Gate, and
\* Commit and Sanity-check run only after the gate passed; the loss before the
\* commit is measured between Gate and Commit.
C11_StageOrder ==
    /\ InOrder(<<"propose", "observe", "refine", "select", "validate", "gate", "commit", "sanity_check">>)
    /\ InOrder(<<"gate", "embed", "prev_loss", "commit", "new_loss", "sanity_check">>)
    /\ OnceEach
    /\ (Done("embed") \/ Done("commit") \/ Done("sanity_check")) => (Done("gate") /\ cyc.passed)

C11_Witness ==
    /\ cyc.pc = "done"
    /\ cyc.kind = "depth"
    /\ cyc.passed
    /\ Len(cyc.log) = 11
    /\ cyc.log[1] = "propose"
    /\ cyc.log[2] = "observe"
    /\ cyc.log[11] = "sanity_check"

\* C12 as stated: a commit is followed by Proposer.verify_state on the new
\* state before a training batch or a growth step uses that state: the stage
\* that runs right after "commit" is a verify_state.
C12_Original ==
    \A k \in 1..Len(cyc.log) :
        (cyc.log[k] = "commit" /\ k < Len(cyc.log)) => cyc.log[k + 1] = "verify_state"

-----------------------------------------------------------------------------
(* SpecProposer: Proposer.verify_state and Proposer.embed_feature called on  *)
(* any parameter state and template of two slots, the state's counts not     *)
(* necessarily matching the template's contents.  A dormant layer has no     *)
(* active entry.                                                             *)

ProposerSlots == {0, 1}

InitProposer ==
    /\ capacities \in [ProposerSlots -> 1..MaxMask]
    /\ contents \in [ProposerSlots -> {None} \cup 0..MaxMask]
    /\ \E n0 \in [0..(capacities[0] - 1) -> BOOLEAN], n1 \in [0..(capacities[1] - 1) -> BOOLEAN],
          d \in [ProposerSlots -> BOOLEAN] :
        /\ state = [i \in ProposerSlots |-> [dormant |-> d[i], null |-> IF i = 0 THEN n0 ELSE n1]]
        /\ \A i \in ProposerSlots : d[i] => \A k \in DOMAIN state[i].null : state[i].null[k]
    /\ input_size = 1
    /\ pc = "ready"
    /\ modification = NoMod
    /\ gate = NoGate
    /\ prev_loss = None
    /\ new_loss = None
    /\ save_index = 0
    /\ just_added = FALSE
    /\ ret = NoRet
    /\ IdxOff
    /\ mala = <<>>
    /\ sgd = <<>>
    /\ AuxOff

ProposerFrame ==
    UNCHANGED <<capacities, contents, state, input_size, gate, prev_loss, new_loss, save_index, just_added,
                idxVars, mala, sgd, auxVars>>

\* proposer.verify_state(state): returns None or raises AssertionError
VerifyState ==
    /\ pc = "ready"
    /\ pc' = "called"
    /\ ret' = [op |-> "verify_state", layer_index |-> None,
               out |-> IF verify_state(state, contents) THEN "ok" ELSE "AssertionError"]
    /\ modification' = NoMod
    /\ ProposerFrame

\* proposer.embed_feature(state, feature, layer_index): returns the new state or
\* raises AssertionError
EmbedFeature ==
    /\ pc = "ready"
    /\ pc' = "called"
    /\ \E layer_index \in ProposerSlots :
        IF embed_feature_ok(state, layer_index)
        THEN /\ ret' = [op |-> "embed_feature", layer_index |-> layer_index, out |-> "ok"]
             /\ modification' = [kind |-> "width", layer_index |-> layer_index,
                                 new_state |-> embed_feature(state, layer_index)]
        ELSE /\ ret' = [op |-> "embed_feature", layer_index |-> layer_index, out |-> "AssertionError"]
             /\ modification' = NoMod
    /\ ProposerFrame

NextProposer == VerifyState \/ EmbedFeature

SpecProposer == InitProposer /\ [][NextProposer]_vars

-----------------------------------------------------------------------------
(* Properties of the Proposer's functions, checked under SpecProposer *)

Mismatch(i) == Cardinality({k \in DOMAIN state[i].null : ~state[i].null[k]}) # contents[i]

\* C13: verify_state raises the assertion iff some slot with content not None
\* has a content different from the number of non-null entries of its layer's
\* mask; a slot with content None never makes it fail; the call leaves the
\* state and the template as they were.
C13_VerifyState ==
    [][ret'.op = "verify_state" =>
        /\ ret'.out \in {"ok", "AssertionError"}
        /\ ret'.out = "AssertionError" <=> \E i \in DOMAIN contents : contents[i] # None /\ Mismatch(i)
        /\ state' = state
        /\ contents' = contents
        /\ capacities' = capacities]_vars

C13_Witness ==
    /\ ret.op = "verify_state"
    /\ ret.out = "ok"
    /\ contents[0] = None
    /\ ~state[0].dormant
    /\ \E k \in DOMAIN state[0].null : ~state[0].null[k]
    /\ contents[1] = 2

\* C16: embed_feature(state, feature, i) raises the assertion when layer i is
\* dormant or has no null entry, and then returns no state and leaves the input
\* state as it was.
C16_EmbedFeatureFails ==
    [][ret'.op = "embed_feature" =>
        LET i == ret'.layer_index
        IN  (state[i].dormant \/ \A k \in DOMAIN state[i].null : ~state[i].null[k]) =>
                /\ ret'.out = "AssertionError"
                /\ modification' = NoMod
                /\ state' = state
                /\ contents' = contents]_vars

C16_Witness ==
    /\ ret.op = "embed_feature"
    /\ ret.out = "AssertionError"
    /\ ret.layer_index = 1
    /\ ~state[1].dormant
    /\ capacities[1] = 2
    /\ \A k \in DOMAIN state[1].null : ~state[1].null[k]
    /\ state[0].dormant

-----------------------------------------------------------------------------
(* SpecMain: main() from the construction of the Solver on: the checkpoint   *)
(* restore, the construction of the evaluators and the epoch loop.           *)
(* main.mode is the checkpointing configuration: "off" (not enabled), "save" *)
(* (enabled, no restore) or "restore" (enabled, restore); main.ckpt is the   *)
(* TrainState restore_checkpoint returns, main.saved the last one saved, and *)
(* main.cycles the number of growth cycles the loop has run.  The weights    *)
(* held by solver.state are kept as main.params, the list of the epoch       *)
(* indices whose training batches went into them; main.ckpt_params and       *)
(* main.saved_params are the weights held by the solver_state of main.ckpt   *)
(* and of main.saved.  A run may be stopped and started again on the         *)
(* checkpoint directory it wrote (MainRestart), at most MaxRuns runs.        *)

EvoCooldown == 2
CkptCooldown == 2

Last == NumLayers - 1

MainCapacities == [i \in 0..Last |-> IF i = Last THEN OutSize ELSE MaxCap]

TrainState(epoch, con, solver_state) == [epoch |-> epoch, contents |-> con, solver_state |-> solver_state]

\* the checkpoints a run may find: written by a run of the same hidden
\* configuration whose output layer had width w
Checkpoints(con) ==
    {TrainState(e, [con EXCEPT ![Last] = w],
                restrict_params([MainCapacities EXCEPT ![Last] = w], [con EXCEPT ![Last] = w])) :
        e \in 0..MaxEpochs, w \in 1..(OutSize + 1)}

\* the weights of a checkpoint with epoch counter e that an earlier run wrote
epochs_before(e) == [k \in 1..e |-> k - 1]

InitMain ==
    /\ capacities = MainCapacities
    /\ contents \in [0..Last -> {None} \cup 1..MaxCap]
    /\ \A i \in 0..Last : contents[i] = None \/ contents[i] <= capacities[i]
    /\ state = <<>>
    /\ input_size \in {1}
    /\ pc = "main"
    /\ modification = NoMod
    /\ gate = NoGate
    /\ prev_loss = None
    /\ new_loss = None
    /\ save_index = 0
    /\ just_added = FALSE
    /\ ret = NoRet
    /\ \E mode \in {"off", "save", "restore"} :
        \E ckpt \in IF mode = "restore" THEN Checkpoints(contents) ELSE {<<>>} :
            main = [pc |-> "construct", mode |-> mode, ckpt |-> ckpt, cfg_contents |-> contents,
                    optimizer |-> FALSE, epoch |-> 0, trained |-> 0, observed |-> 0, cycles |-> 0,
                    saved |-> <<>>, params |-> <<>>, saved_params |-> <<>>, runs |-> 1,
                    ckpt_params |-> IF mode = "restore" THEN epochs_before(ckpt.epoch) ELSE <<>>]
    /\ IdxOff
    /\ mala = <<>>
    /\ sgd = <<>>
    /\ cyc = <<>>
    /\ feat = <<>>
    /\ ExtOff

MainFrame ==
    UNCHANGED <<capacities, input_size, pc, modification, gate, prev_loss, new_loss, save_index, just_added,
                idxVars, mala, sgd, cyc, feat, extVars>>

\* Solver.__init__
MainSolverInit ==
    /\ main # <<>>
    /\ main.pc = "construct"
    /\ IF nonincreasing(contents)
       THEN /\ state' = restrict_params(capacities, contents)
            /\ main' = [main EXCEPT !.pc = "restore", !.optimizer = TRUE, !.params = <<>>]
            /\ ret' = [op |-> "Solver.__init__", layer_index |-> None, out |-> "ok"]
       ELSE /\ state' = state
            /\ main' = [main EXCEPT !.pc = "aborted"]
            /\ ret' = [op |-> "Solver.__init__", layer_index |-> None, out |-> "AssertionError"]
    /\ UNCHANGED contents
    /\ MainFrame

\* initial_train_state.contents[-1] != initial_train_state.contents[-1]
output_size_changed(ckpt, con) == ckpt.contents[Last] # ckpt.contents[Last]

\* initial_epoch = initial_train_state.epoch
initial_epoch_mut(initial_train_state) == initial_train_state.epoch + 1
initial_epoch(initial_train_state) == initial_train_state.epoch

\* the checkpoint restore of main()
MainRestore ==
    /\ main # <<>>
    /\ main.pc = "restore"
    /\ IF main.mode = "restore"
       THEN IF output_size_changed(main.ckpt, contents)
            THEN /\ main' = [main EXCEPT !.pc = "exited"]
                 /\ ret' = [op |-> "restore", layer_index |-> None, out |-> "exit"]
                 /\ UNCHANGED <<state, contents>>
            ELSE /\ state' = main.ckpt.solver_state
                 /\ contents' = main.ckpt.contents
                 /\ main' = [main EXCEPT !.pc = "evaluators", !.epoch = initial_epoch(main.ckpt),
                                         !.params = main.ckpt_params]
                 /\ ret' = [op |-> "restore", layer_index |-> None, out |-> "ok"]
       ELSE /\ main' = [main EXCEPT !.pc = "evaluators"]
            /\ ret' = [op |-> "restore", layer_index |-> None, out |-> "skipped"]
            /\ UNCHANGED <<state, contents>>
    /\ MainFrame

\* get_evaluator / get_validator for every slot but the last, refresh_evaluators()
MainBuildEvaluators ==
    /\ main # <<>>
    /\ main.pc = "evaluators"
    /\ IF \A i \in 0..(Last - 1) : in_out_indices(contents, i).ok
       THEN /\ main' = [main EXCEPT !.pc = IF main.epoch < MaxEpochs THEN "train" ELSE "finished"]
            /\ ret' = [op |-> "get_evaluator", layer_index |-> None, out |-> "ok"]
       ELSE /\ main' = [main EXCEPT !.pc = "aborted"]
            /\ ret' = [op |-> "get_evaluator", layer_index |-> None, out |-> "IndexError"]
    /\ UNCHANGED <<state, contents>>
    /\ MainFrame

is_final_epoch(epoch) == epoch = MaxEpochs - 1 \/ epoch = 0

\* the epoch's training batches: solver.train_batch(batch) for every batch
MainTrainBatches ==
    /\ main # <<>>
    /\ main.pc = "train"
    /\ main' = [main EXCEPT !.pc = "evaluate", !.trained = @ + 1, !.params = Append(@, main.epoch)]
    /\ ret' = [op |-> "train_batch", layer_index |-> None, out |-> "ok"]
    /\ UNCHANGED <<state, contents>>
    /\ MainFrame

\* test_batch, test_acc, train_acc and train_batch(observe_only=True)
MainEvaluate ==
    /\ main # <<>>
    /\ main.pc = "evaluate"
    /\ main' = [main EXCEPT !.pc = "verify", !.observed = @ + 1]
    /\ ret' = [op |-> "train_batch(observe_only)", layer_index |-> None, out |-> "ok"]
    /\ UNCHANGED <<state, contents>>
    /\ MainFrame

\* proposer.verify_state(solver.state)
MainVerifyState ==
    /\ main # <<>>
    /\ main.pc = "verify"
    /\ IF verify_state(state, contents)
       THEN /\ main' = [main EXCEPT !.pc = "growth"]
            /\ ret' = [op |-> "verify_state", layer_index |-> None, out |-> "ok"]
       ELSE /\ main' = [main EXCEPT !.pc = "aborted"]
            /\ ret' = [op |-> "verify_state", layer_index |-> None, out |-> "AssertionError"]
    /\ UNCHANGED <<state, contents>>
    /\ MainFrame

\* if epoch % cfg["evo"]["cooldown"] == 0 or is_final: pass
growth_cycles_run(epoch) == IF epoch % EvoCooldown = 0 \/ is_final_epoch(epoch) THEN 0 ELSE 0

MainGrowthSite ==
    /\ main # <<>>
    /\ main.pc = "growth"
    /\ main' = [main EXCEPT !.pc = "checkpoint", !.cycles = @ + growth_cycles_run(main.epoch)]
    /\ ret' = [op |-> "growth", layer_index |-> None, out |-> "ok"]
    /\ UNCHANGED <<state, contents>>
    /\ MainFrame

\* checkpoint_data = TrainState(epoch + 1, tuple(template.contents), solver.state)
checkpoint_data_mut(epoch, con, solver_state) == TrainState(epoch, con, solver_state)
checkpoint_data(epoch, con, solver_state) == TrainState(epoch + 1, con, solver_state)

\* the checkpoint save of the epoch loop
MainCheckpoint ==
    /\ main # <<>>
    /\ main.pc = "checkpoint"
    /\ main' = IF main.mode # "off" /\ main.epoch % CkptCooldown = 0
               THEN [main EXCEPT !.pc = "step",
                                 !.saved = checkpoint_data(main.epoch, contents, state),
                                 !.saved_params = main.params]
               ELSE [main EXCEPT !.pc = "step"]
    /\ ret' = [op |-> "checkpoint", layer_index |-> None, out |-> "ok"]
    /\ UNCHANGED <<state, contents>>
    /\ MainFrame

\* rtpt.step() and the loop's next epoch
MainStep ==
    /\ main # <<>>
    /\ main.pc = "step"
    /\ main' = [main EXCEPT !.epoch = @ + 1, !.pc = IF main.epoch + 1 < MaxEpochs THEN "train" ELSE "finished"]
    /\ ret' = [op |-> "step", layer_index |-> None, out |-> "ok"]
    /\ UNCHANGED <<state, contents>>
    /\ MainFrame

\* the run ends, or is stopped inside its epoch loop, and is started again with
\* checkpointing.restore set on the directory that holds the checkpoint it saved
MainRestart ==
    /\ main # <<>>
    /\ main.pc \in {"train", "evaluate", "verify", "growth", "checkpoint", "step", "finished"}
    /\ main.saved # <<>>
    /\ main.runs < MaxRuns
    /\ main' = [main EXCEPT !.pc = "construct", !.mode = "restore", !.ckpt = main.saved,
                            !.ckpt_params = main.saved_params, !.optimizer = FALSE, !.epoch = 0,
                            !.trained = 0, !.observed = 0, !.cycles = 0, !.params = <<>>, !.runs = @ + 1]
    /\ contents' = main.cfg_contents
    /\ state' = <<>>
    /\ ret' = [op |-> "main", layer_index |-> None, out |-> "started"]
    /\ MainFrame

NextMain ==
    \/ MainSolverInit \/ MainRestore \/ MainBuildEvaluators \/ MainTrainBatches \/ MainEvaluate
    \/ MainVerifyState \/ MainGrowthSite \/ MainCheckpoint \/ MainStep \/ MainRestart

SpecMain == InitMain /\ [][NextMain]_vars

-----------------------------------------------------------------------------
(* Properties of main(), checked under SpecMain *)

\* C14 as stated: restoring a checkpoint whose contents vector has a final
\* width different from the one configured for the run is rejected: the run
\* exits, and neither template.contents nor solver.state is replaced.
C14_Original ==
    (main.mode = "restore" /\ ret.op = "restore" /\ main.ckpt.contents[Last] # main.cfg_contents[Last]) =>
        /\ ret.out = "exit"
        /\ contents = main.cfg_contents
        /\ state = restrict_params(capacities, main.cfg_contents)

Increasing(con) ==
    \E i, j \in DOMAIN con : i < j /\ con[i] # None /\ con[j] # None /\ con[i] < con[j]

\* C15: constructing the Solver fails with an assertion for every template
\* whose enabled contents are not non-increasing, and then neither a restricted
\* parameter state nor an optimizer exists; for every template whose enabled
\* contents are non-increasing the construction passes the check and creates
\* both.
C15_SolverConstruction ==
    [][(main.pc = "construct" /\ main'.pc # "construct") =>
        IF Increasing(contents)
        THEN /\ ret'.out = "AssertionError"
             /\ main'.pc = "aborted"
             /\ state' = <<>>
             /\ ~main'.optimizer
        ELSE /\ ret'.out = "ok"
             /\ main'.pc = "restore"
             /\ main'.optimizer
             /\ DOMAIN state' = DOMAIN contents
             /\ \A i \in DOMAIN contents :
                    contents[i] # None => Cardinality({k \in DOMAIN state'[i].null : ~state'[i].null[k]}) = contents[i]]_vars

C15_Witness ==
    /\ ret.op = "Solver.__init__"
    /\ ret.out = "AssertionError"
    /\ main.pc = "aborted"
    /\ contents[0] = 1
    /\ contents[1] = None
    /\ contents[2] = 2

\* C19 as stated: on every epoch e with e % evo.cooldown == 0, and on the first
\* and the final epoch, a growth cycle is run after the epoch's training
\* batches: once the loop is past the growth site of such an epoch, it has run
\* a growth cycle.
C19_Original ==
    (main.pc = "checkpoint" /\ (main.epoch % EvoCooldown = 0 \/ main.epoch = 0 \/ main.epoch = MaxEpochs - 1)) =>
        main.cycles > 0

-----------------------------------------------------------------------------
(* The failure of in_out_indices, checked under SpecIdx *)

\* C17: for every contents vector with no enabled slot at an index greater than
\* i, in_out_indices(i) fails with an error and returns no indices; the call
\* leaves the contents vector as it was.
C17_InOutIndicesFails ==
    [][(~io.called /\ io'.called) =>
        /\ conarr' = conarr
        /\ site' = site
        /\ (~\E j \in DOMAIN conarr : j > site /\ conarr[j] # None) =>
                (~io'.ok /\ io'.out_index = None)]_vars

C17_Witness ==
    /\ io.called
    /\ ~io.ok
    /\ DOMAIN conarr = 0..2
    /\ site = 1
    /\ conarr[0] # None
    /\ conarr[1] # None
    /\ conarr[2] = None

-----------------------------------------------------------------------------
(* The failing sanity check, checked under Spec *)

\* the quotient new / prev of two non-negative losses is not below num / den;
\* a quotient by 0 is not below anything
NotBelow(prev, new, num, den) == prev = 0 \/ den * new >= num * prev

\* C18: when the sanity check after a commit fails (new_loss / prev_loss not
\* below 1.001 for a width commit, not below 1.2 for a depth commit) apply()
\* aborts with the assertion and nothing is rolled back: solver.state is the new
\* state of the modification and template.contents holds the updated content
\* (for a depth commit the size apply() assigned: the content of slot i - 1, or
\* the input width for slot 0).
\* (Two zero losses have no quotient; a depth commit is then not held to have
\* failed.)
C18_NoRollback ==
    [][LET i == modification.layer_index
       IN  /\ (WidthCommitStep /\ new_loss' # None) =>
                /\ ret'.out = "adding width made loss worse" <=> NotBelow(prev_loss', new_loss', 1001, 1000)
                /\ ret'.out = "adding width made loss worse" =>
                    /\ pc' = "aborted"
                    /\ state' = modification.new_state
                    /\ state' # state
                    /\ contents'[i] = contents[i] + 1
           /\ (DepthCommitStep /\ new_loss' # None) =>
                /\ (prev_loss' > 0 \/ new_loss' > 0) =>
                    (ret'.out = "adding layer made loss worse" <=> NotBelow(prev_loss', new_loss', 12, 10))
                /\ ret'.out = "adding layer made loss worse" =>
                    /\ pc' = "aborted"
                    /\ state' = modification.new_state
                    /\ ~state'[i].dormant
                    /\ contents[i] = None
                    /\ contents'[i] = IF i > 0 THEN contents[i - 1] ELSE input_size]_vars

C18_Witness ==
    /\ ret.op = "WidthModification.apply"
    /\ ret.out = "adding width made loss worse"
    /\ pc = "aborted"
    /\ prev_loss = 1000
    /\ new_loss = 1001
    /\ ret.layer_index = 0
    /\ contents[0] = 3
    /\ Cardinality({k \in DOMAIN state[0].null : ~state[0].null[k]}) = 3

-----------------------------------------------------------------------------
(* SpecFeature: make_feature followed by locate_feature, in exact rational   *)
(* arithmetic.  An integer is kept as the sequence <<a0, a1, ...>> of its     *)
(* coefficients in powers of EpsInv = 10^6 (so that 1e-6 is 1 / <<0, 1>>),    *)
(* a rational as a record [n, d] of two such integers.  The rounding of the  *)
(* program's floating-point numbers is left out: at the magnitudes used here *)
(* it is below 1e-5.                                                         *)

EpsInv == 1000000

Coef(a, k) == IF k <= Len(a) THEN a[k] ELSE 0

PAdd(a, b) == [k \in 1..Max({Len(a), Len(b)}) |-> Coef(a, k) + Coef(b, k)]

PNeg(a) == [k \in 1..Len(a) |-> 0 - a[k]]

RECURSIVE ConvSum(_, _, _, _)
ConvSum(a, b, n, i) ==
    IF i > Len(a) THEN 0
    ELSE (IF (n + 1 - i) \in 1..Len(b) THEN a[i] * b[n + 1 - i] ELSE 0) + ConvSum(a, b, n, i + 1)

PMul(a, b) == [n \in 1..(Len(a) + Len(b) - 1) |-> ConvSum(a, b, n, 1)]

Sgn(x) == IF x > 0 THEN 1 ELSE IF x < 0 THEN 0 - 1 ELSE 0

\* the sign of the integer a: its coefficients are carried into the balanced
\* range -EpsInv/2 .. EpsInv/2 - 1 from the lowest one up; the highest non-zero
\* one decides
RECURSIVE SignFrom(_, _, _, _)
SignFrom(a, k, carry, sgn) ==
    IF k > Len(a) THEN (IF carry # 0 THEN Sgn(carry) ELSE sgn)
    ELSE LET c == a[k] + carry
             r == ((c + EpsInv \div 2) % EpsInv) - EpsInv \div 2
         IN  SignFrom(a, k + 1, (c - r) \div EpsInv, IF r # 0 THEN Sgn(r) ELSE sgn)

PSign(a) == SignFrom(a, 1, 0, 0)

Rat(n, d) == [n |-> <<n>>, d |-> <<d>>]

RAdd(x, y) == [n |-> PAdd(PMul(x.n, y.d), PMul(y.n, x.d)), d |-> PMul(x.d, y.d)]

RNeg(x) == [n |-> PNeg(x.n), d |-> x.d]

RSub(x, y) == RAdd(x, RNeg(y))

RMul(x, y) == [n |-> PMul(x.n, y.n), d |-> PMul(x.d, y.d)]

RDiv(x, y) == [n |-> PMul(x.n, y.d), d |-> PMul(x.d, y.n)]

RSign(x) == PSign(x.n) * PSign(x.d)

\* |x| <= t
RWithin(x, t) == RSign(RSub(t, x)) >= 0 /\ RSign(RAdd(t, x)) >= 0

\* the literal 1e-6
Eps == [n |-> <<1>>, d |-> <<0, 1>>]

make_feature(p, s, c, l, v) ==
    LET kernel == RDiv(Rat(1, 1), RAdd(Eps, s))
        bias == RMul(RNeg(p), kernel)
    IN  [w_const |-> c, w_lin |-> l, w_vec |-> v, bias |-> bias, kernel |-> kernel]

locate_linear(kernel, bias) ==
    [position |-> RDiv(RNeg(bias), kernel), scale |-> RDiv(Rat(1, 1), RAdd(Eps, kernel))]

locate_feature(feature) == locate_linear(feature.kernel, feature.bias)

\* scales above 1e-3: 0.01, 0.5, 1, 10, 20
Scales == {Rat(1, 100), Rat(1, 2), Rat(1, 1), Rat(10, 1), Rat(20, 1)}

Positions == {Rat(k, 1) : k \in (0 - MaxPos)..MaxPos}

InitFeature ==
    /\ \E p \in Positions, s \in Scales, c \in {0, 1}, l \in {0, 1}, v \in {0, 1} :
        feat = [p |-> p, s |-> s, c |-> c, l |-> l, v |-> v, feature |-> <<>>, located |-> <<>>]
    /\ GrowOff
    /\ IdxOff
    /\ mala = <<>>
    /\ sgd = <<>>
    /\ cyc = <<>>
    /\ main = <<>>
    /\ ExtOff

MakeFeature ==
    /\ feat # <<>>
    /\ feat.feature = <<>>
    /\ feat' = [feat EXCEPT !.feature = make_feature(feat.p, feat.s, feat.c, feat.l, feat.v)]
    /\ UNCHANGED <<growVars, idxVars, mala, sgd, cyc, main, extVars>>

LocateFeature ==
    /\ feat # <<>>
    /\ feat.feature # <<>>
    /\ feat.located = <<>>
    /\ feat' = [feat EXCEPT !.located = locate_feature(feat.feature)]
    /\ UNCHANGED <<growVars, idxVars, mala, sgd, cyc, main, extVars>>

NextFeature == MakeFeature \/ LocateFeature

SpecFeature == InitFeature /\ [][NextFeature]_vars

-----------------------------------------------------------------------------
(* The round trip, checked under SpecFeature *)

\* the tolerance 1e-4
Tol == [n |-> <<100>>, d |-> <<0, 1>>]

\* C20 as stated: for every position p and every scale s > 1e-3,
\* locate_feature(make_feature(p, s, c, l, v)) returns (p', s') with
\* |p' - p| <= 1e-4 and |s' - s| <= 1e-4, whatever c, l, v are.
C20_Original ==
    feat.located # <<>> =>
        /\ RWithin(RSub(feat.located.position, feat.p), Tol)
        /\ RWithin(RSub(feat.located.scale, feat.s), Tol)

-----------------------------------------------------------------------------
(* in_out_indices: which slots the two indices name, checked under SpecIdx *)

PrecedingEnabled == {j \in DOMAIN conarr : j < site /\ conarr[j] # None}

SubsequentEnabled == {j \in DOMAIN conarr : j > site /\ conarr[j] # None}

NearestAfter ==
    /\ io.ok
    /\ io.out_index \in SubsequentEnabled
    /\ \A j \in SubsequentEnabled : io.out_index <= j

\* C24 as stated: out_index is the nearest enabled slot after the site and
\* in_index is the index of the nearest enabled slot preceding the site.
C24_Original ==
    (io.called /\ SubsequentEnabled # {}) =>
        /\ NearestAfter
        /\ PrecedingEnabled # {} => io.in_index = Max(PrecedingEnabled)

\* C24: for every contents vector and site i with an enabled slot after it,
\* in_out_indices(i) returns as out_index the nearest enabled slot after i (no
\* enabled slot lies strictly between i and out_index) and as in_index the
\* index following the nearest enabled slot preceding i, or 0 when no enabled
\* slot precedes i.
C24_NearestSlots ==
    (io.called /\ SubsequentEnabled # {}) =>
        /\ NearestAfter
        /\ \A j \in (site + 1)..(io.out_index - 1) : conarr[j] = None
        /\ io.in_index = IF PrecedingEnabled = {} THEN 0 ELSE Max(PrecedingEnabled) + 1

C24_Witness ==
    /\ io.called
    /\ io.ok
    /\ DOMAIN conarr = 0..3
    /\ site = 2
    /\ conarr[0] # None
    /\ conarr[1] = None
    /\ conarr[3] # None
    /\ io.in_index = 1
    /\ io.out_index = 3

-----------------------------------------------------------------------------
(* What a depth commit writes into the template, checked under Spec *)

\* C26: after DepthModification.apply commits at a dormant site i, contents[i]
\* is not None and equals the width of the layer that was embedded there, the
\* number of active units of layer i in the committed parameter state (the
\* active inputs counted at the in_index boundary), whatever slot i-1 holds.
C26_Original ==
    [][(DepthCommitStep /\ ret'.out = "ok") =>
        LET i == modification.layer_index
        IN  /\ contents'[i] # None
            /\ contents'[i] = count_not_null(state'[i].null)]_vars

-----------------------------------------------------------------------------
(* The order of the enabled contents across commits, checked under Spec *)

\* C27: the non-increasing order of enabled contents that Solver construction
\* requires is preserved by every growth commit: a WidthModification.apply or
\* DepthModification.apply that completes on a template whose enabled contents
\* are non-increasing leaves them non-increasing.
C27_Original ==
    [][((WidthCommitStep \/ DepthCommitStep) /\ ret'.out = "ok" /\ nonincreasing(contents)) =>
        nonincreasing(contents')]_vars

-----------------------------------------------------------------------------
(* Where the live state changes, checked under Spec *)

ConsiderStep == pc = "idle" /\ ret'.op \in {"consider_adding_width", "consider_inserting_layer"}

LiveUnchanged == state' = state /\ contents' = contents

\* C28: the live state changes only in apply().  A consider_adding_width or
\* consider_inserting_layer call leaves solver.state and template.contents
\* unchanged whether its gate fails (it returns None) or passes (it returns a
\* modification); the modification it returns carries a new state, distinct
\* from the live one, that embed_feature / embed_layer built; and every step
\* that changes solver.state or template.contents is an apply() step.
C28_LiveState ==
    [][/\ ConsiderStep => LiveUnchanged
       /\ (ConsiderStep /\ ret'.out = "None") => (LiveUnchanged /\ modification' = NoMod)
       /\ (ConsiderStep /\ pc' = "pending") =>
            LET i == modification'.layer_index
            IN  /\ modification'.kind = "width" =>
                    /\ modification'.new_state # state'
                    /\ count_not_null(modification'.new_state[i].null) = count_not_null(state'[i].null) + 1
                /\ (modification'.kind = "depth" /\ state[i].dormant) =>
                    /\ modification'.new_state # state'
                    /\ state'[i].dormant
       /\ ~LiveUnchanged => (WidthCommitStep \/ DepthCommitStep)]_vars

C28_Witness ==
    /\ pc = "pending"
    /\ modification.kind = "width"
    /\ modification.new_state # state
    /\ state = restrict_params(capacities, contents)
    /\ ret.op = "consider_adding_width"

-----------------------------------------------------------------------------
(* Checkpoints and the epoch loop, checked under SpecMain *)

SaveStep == main # <<>> /\ main.pc = "checkpoint" /\ main'.saved # main.saved

RestoreStep == main # <<>> /\ main.pc = "restore" /\ main.mode = "restore" /\ main'.pc = "evaluators"

TrainStep == main # <<>> /\ main.pc = "train" /\ main'.pc = "evaluate"

\* C29: a checkpoint written during epoch e stores the epoch counter e + 1
\* together with the contents vector and the parameter state reached at the end
\* of epoch e (the epochs 0..e trained into the weights, once each); a run
\* restored from a checkpoint starts its epoch loop at exactly the stored
\* counter, on the stored contents and parameter state; every epoch the loop
\* trains is the one that follows the epochs already in the weights, so none is
\* skipped and none is trained twice; and a run restored with a counter
\* >= max_epochs trains zero epochs.
C29_Checkpoint ==
    [][/\ SaveStep =>
            /\ main'.saved.epoch = main.epoch + 1
            /\ main'.saved.contents = contents
            /\ main'.saved.solver_state = state
            /\ main'.saved_params = main.params
            /\ main.params = epochs_before(main.epoch + 1)
       /\ RestoreStep =>
            /\ main'.epoch = main.ckpt.epoch
            /\ contents' = main.ckpt.contents
            /\ state' = main.ckpt.solver_state
            /\ main'.params = main.ckpt_params
            /\ main'.trained = 0
       /\ TrainStep =>
            /\ main.epoch < MaxEpochs
            /\ main.epoch = (IF main.mode = "restore" THEN main.ckpt.epoch ELSE 0) + main.trained
            /\ main.params = epochs_before(main.epoch)
            /\ main'.params = epochs_before(main.epoch + 1)
       /\ (main # <<>> /\ main'.pc = "finished" /\ main.mode = "restore" /\ main.ckpt.epoch >= MaxEpochs) =>
            /\ main'.trained = 0
            /\ main'.params = main.ckpt_params]_vars

C29_Witness ==
    /\ main # <<>>
    /\ main.runs = 2
    /\ main.pc = "finished"
    /\ main.mode = "restore"
    /\ main.ckpt.epoch = 1
    /\ main.trained = MaxEpochs - 1
    /\ main.params = epochs_before(MaxEpochs)
    /\ main.saved.epoch = MaxEpochs

-----------------------------------------------------------------------------
(* SpecTrain: Solver.train_batch, Solver.update_params and the two apply()   *)
(* methods, as far as the parameters go.  The weights of solver.state are    *)
(* kept as a term: the list of the update steps applied to them (each step   *)
(* named by the observation its tangent was read from) and the number of     *)
(* features and layers embedded into them.  A loss is the pair of the        *)
(* weights and the batch it was measured on.  tb.opt_state is the list of    *)
(* the observations the optimizer has made.                                  *)

MaxCalls == 3

Batches == {"batch", "dataset"}

InitialParams == [steps |-> <<>>, embedded |-> 0]

\* Solver._batch_loss
batch_loss(params, batch) == [params |-> params, batch |-> batch]

\* optimizer.observe: a new observation state made from the old one, the batch
\* and the parameters
observe(batch, params, opt_state) == Append(opt_state, [params |-> params, batch |-> batch])

\* optimizer.read: the natural gradient of the last observation
read(opt_state) == [observation |-> Len(opt_state), of |-> opt_state[Len(opt_state)]]

\* Solver.update_params(1.0, tan): one step along tan
update_params(params, tan) == [params EXCEPT !.steps = Append(@, tan)]

updates_params_mut(observe_only) == TRUE
updates_params(observe_only) == ~observe_only

\* Solver.train_batch: the solver fields after the call and the loss it computed
train_batch(s, batch, observe_only) ==
    LET loss == batch_loss(s.params, batch)
        opt_state == observe(batch, s.params, s.opt_state)
        ngrad == read(opt_state)
        observed == [s EXCEPT !.opt_state = opt_state, !.last_natlen = ngrad.observation]
    IN  [solver |-> IF updates_params(observe_only)
                    THEN [observed EXCEPT !.params = update_params(s.params, ngrad)]
                    ELSE observed,
         loss |-> loss]

NoLast == [op |-> "none", batch |-> "none", observe_only |-> FALSE, layer_index |-> None]

InitTrain ==
    /\ tb \in {[params |-> InitialParams, opt_state |-> <<>>, last_natlen |-> None, contents |-> con,
                pc |-> "idle", new_state |-> <<>>, kind |-> "none", layer_index |-> None,
                prev_loss |-> <<>>, new_loss |-> <<>>, calls |-> 0, last |-> NoLast] :
                    con \in {c \in [0..1 -> {None, 1, 2}] : nonincreasing(c)}}
    /\ GrowOff
    /\ IdxOff
    /\ mala = <<>>
    /\ sgd = <<>>
    /\ cyc = <<>>
    /\ main = <<>>
    /\ feat = <<>>
    /\ sel = <<>>
    /\ cfgfile = <<>>
    /\ samp = <<>>

TrainFrame == UNCHANGED <<growVars, idxVars, mala, sgd, cyc, main, feat, sel, cfgfile, samp>>

\* solver.train_batch(batch, observe_only) called by the epoch loop
TrainBatch ==
    /\ tb # <<>>
    /\ tb.pc = "idle"
    /\ tb.calls < MaxCalls
    /\ \E batch \in Batches, observe_only \in BOOLEAN :
        LET r == train_batch(tb, batch, observe_only)
        IN  tb' = [r.solver EXCEPT !.calls = @ + 1, !.prev_loss = <<>>, !.new_loss = <<>>,
                                   !.last = [op |-> "train_batch", batch |-> batch,
                                             observe_only |-> observe_only, layer_index |-> None]]
    /\ TrainFrame

\* a growth cycle whose gate passes: the modification holds the state that
\* embed_feature / embed_layer built from solver.state
ConsiderTrain ==
    /\ tb # <<>>
    /\ tb.pc = "idle"
    /\ tb.calls < MaxCalls
    /\ \E layer_index \in DOMAIN tb.contents :
        tb' = [tb EXCEPT !.pc = "pending",
                         !.kind = IF tb.contents[layer_index] = None THEN "depth" ELSE "width",
                         !.layer_index = layer_index,
                         !.new_state = [tb.params EXCEPT !.embedded = @ + 1],
                         !.prev_loss = <<>>, !.new_loss = <<>>,
                         !.last = [op |-> "consider", batch |-> "none", observe_only |-> FALSE,
                                   layer_index |-> layer_index]]
    /\ TrainFrame

\* WidthModification.apply / DepthModification.apply: the loss before, the
\* commit, the loss after and the assertion on their quotient
ApplyTrain ==
    /\ tb # <<>>
    /\ tb.pc = "pending"
    /\ LET i == tb.layer_index
           before == train_batch(tb, "dataset", TRUE)
           committed == [before.solver EXCEPT
                            !.params = tb.new_state,
                            !.contents[i] = IF tb.kind = "width" THEN new_width_size(tb.contents, i)
                                            ELSE new_depth_size(tb.contents, 1, i)]
           after == train_batch(committed, "dataset", TRUE)
       IN  \E ok \in BOOLEAN :
            tb' = [after.solver EXCEPT !.pc = IF ok THEN "idle" ELSE "aborted",
                                       !.prev_loss = before.loss, !.new_loss = after.loss,
                                       !.new_state = <<>>, !.kind = "none", !.layer_index = None,
                                       !.calls = @ + 1,
                                       !.last = [op |-> "apply", batch |-> "dataset",
                                                 observe_only |-> TRUE, layer_index |-> i]]
    /\ TrainFrame

NextTrain == TrainBatch \/ ConsiderTrain \/ ApplyTrain

SpecTrain == InitTrain /\ [][NextTrain]_vars

-----------------------------------------------------------------------------
(* What train_batch changes, checked under SpecTrain *)

TrainBatchStep(observe_only) ==
    tb # <<>> /\ tb'.last.op = "train_batch" /\ tb'.last.observe_only = observe_only /\ tb'.calls = tb.calls + 1

ApplyStep == tb # <<>> /\ tb.pc = "pending" /\ tb'.last.op = "apply"

\* C30: train_batch(batch, observe_only=True) leaves the parameters of
\* solver.state and template.contents unchanged and updates the optimizer's
\* observation state and last_natlen; with observe_only=False it replaces the
\* parameters by the result of exactly one update step; and in a commit the
\* loss before is measured on the parameters the commit found, the loss after
\* on the modification's new state, which becomes solver.state with no update
\* step applied in between.
C30_TrainBatch ==
    [][/\ TrainBatchStep(TRUE) =>
            /\ tb'.params = tb.params
            /\ tb'.contents = tb.contents
            /\ Len(tb'.opt_state) = Len(tb.opt_state) + 1
            /\ tb'.last_natlen = Len(tb'.opt_state)
       /\ TrainBatchStep(FALSE) =>
            /\ Len(tb'.params.steps) = Len(tb.params.steps) + 1
            /\ SubSeq(tb'.params.steps, 1, Len(tb.params.steps)) = tb.params.steps
            /\ tb'.params.embedded = tb.params.embedded
            /\ tb'.contents = tb.contents
            /\ Len(tb'.opt_state) = Len(tb.opt_state) + 1
       /\ ApplyStep =>
            /\ tb'.prev_loss = batch_loss(tb.params, "dataset")
            /\ tb'.new_loss = batch_loss(tb.new_state, "dataset")
            /\ tb'.params = tb.new_state
            /\ tb'.params.steps = tb.params.steps]_vars

C30_Witness ==
    /\ tb # <<>>
    /\ tb.last.op = "apply"
    /\ tb.prev_loss # <<>>
    /\ tb.new_loss # <<>>
    /\ Len(tb.params.steps) = 1
    /\ tb.prev_loss.params.steps = tb.params.steps
    /\ tb.params.embedded = 1
    /\ Len(tb.opt_state) = 3

-----------------------------------------------------------------------------
(* SpecSelect: the candidate features of one growth cycle, from the proposal *)
(* to the commit.  A feature is kept as the record of the key it was         *)
(* generated from, whether the evaluator (kfac_direct_mala) has refined it   *)
(* and whether make_invertible has clipped its singular values.              *)
(* sel.featstack is the local featstack of consider_adding_width /           *)
(* consider_inserting_layer, sel.opt_featstack is opt_state.featstack.       *)

MaxProps == 3

Rmetrics == {0, 1}

\* proposer.generate_feature under jax.vmap over jax.random.split(key, num_props)
generate_featstack(num_props) ==
    [i \in 0..(num_props - 1) |-> [key |-> i, refined |-> FALSE, invertible |-> FALSE]]

\* the evaluator: kfac_direct_mala on every candidate returns final_state.feature
evaluator_featstack(stack) == [i \in DOMAIN stack |-> [stack[i] EXCEPT !.refined = TRUE]]

make_invertible(f) == [f EXCEPT !.invertible = TRUE]

\* OptState.get_feature of consider_adding_width: jtm(lambda arr: arr[i], self.featstack)
width_get_feature(s, i) == s.opt_featstack[i]

\* get_feature of consider_inserting_layer: jtm(lambda arr: arr[i], featstack)
depth_get_feature(s, i) == s.featstack[i]

\* the feature handed to embed_feature / embed_layer
feature_to_embed(s) ==
    IF s.kind = "width" THEN width_get_feature(s, s.best) ELSE make_invertible(depth_get_feature(s, s.best))

InitSelect ==
    /\ sel \in {[kind |-> kind, num_props |-> n, pc |-> "propose", featstack |-> <<>>,
                 opt_featstack |-> <<>>, rmetrics |-> <<>>, best |-> None, new_state |-> <<>>,
                 written |-> <<>>] : kind \in {"width", "depth"}, n \in 1..MaxProps}
    /\ GrowOff
    /\ IdxOff
    /\ mala = <<>>
    /\ sgd = <<>>
    /\ cyc = <<>>
    /\ main = <<>>
    /\ feat = <<>>
    /\ tb = <<>>
    /\ cfgfile = <<>>
    /\ samp = <<>>

SelectFrame == UNCHANGED <<growVars, idxVars, mala, sgd, cyc, main, feat, tb, cfgfile, samp>>

\* Propose: featstack, and opt_state = OptState(zeros, init_eps, featstack)
SelPropose ==
    /\ sel # <<>>
    /\ sel.pc = "propose"
    /\ LET stack == generate_featstack(sel.num_props)
       IN  sel' = [sel EXCEPT !.pc = "refine", !.featstack = stack, !.opt_featstack = stack,
                              !.rmetrics = [i \in DOMAIN stack |-> 0]]
    /\ SelectFrame

\* Refine: opt_state, layer_score, loss_sqnorm = step(opt_state)
SelRefine ==
    /\ sel # <<>>
    /\ sel.pc = "refine"
    /\ \E rmetrics \in [DOMAIN sel.featstack -> Rmetrics] :
        sel' = [sel EXCEPT !.pc = "select", !.opt_featstack = evaluator_featstack(sel.opt_featstack),
                           !.rmetrics = rmetrics]
    /\ SelectFrame

\* Select: best = jax.random.categorical(key, logits)
SelSelect ==
    /\ sel # <<>>
    /\ sel.pc = "select"
    /\ \E best \in DOMAIN sel.opt_featstack :
        sel' = [sel EXCEPT !.pc = "gate", !.best = best]
    /\ SelectFrame

\* Validate, Gate and Embed: the modification returned, or None
SelEmbed ==
    /\ sel # <<>>
    /\ sel.pc = "gate"
    /\ \E passes \in BOOLEAN :
        sel' = IF passes
               THEN [sel EXCEPT !.pc = "pending", !.new_state = feature_to_embed(sel)]
               ELSE [sel EXCEPT !.pc = "returned"]
    /\ SelectFrame

\* apply(): solver.state = self.new_state
SelApply ==
    /\ sel # <<>>
    /\ sel.pc = "pending"
    /\ sel' = [sel EXCEPT !.pc = "applied", !.written = sel.new_state]
    /\ SelectFrame

NextSelect == SelPropose \/ SelRefine \/ SelSelect \/ SelEmbed \/ SelApply

SpecSelect == InitSelect /\ [][NextSelect]_vars

-----------------------------------------------------------------------------
(* Which feature a commit writes, checked under SpecSelect *)

\* C23: the feature written into the parameter state by a committed growth
\* cycle is the refined (post-optimizer) feature of the candidate whose index
\* was drawn in Select, and no other candidate's parameters are written, for
\* width growth and for depth growth.
C23_Original ==
    (sel # <<>> /\ sel.pc = "applied") =>
        /\ sel.written.key = sel.opt_featstack[sel.best].key
        /\ sel.written.refined

-----------------------------------------------------------------------------
(* SpecSampler: one pass of the generator Sampler.batches().  The dataset is *)
(* the sequence of its sample indices 0..DLEN-1, a batch the sequence of the *)
(* sample indices it holds; samp.keys is the number of keys taken from       *)
(* key_iter, samp.out the batches yielded so far.                            *)

MaxData == 4
MaxBatch == 3

\* pindices[start:]
SliceFrom(arr, start) == IF start >= Len(arr) THEN <<>> ELSE SubSeq(arr, start + 1, Len(arr))

\* pindices[:n]
SliceTo(arr, n) == IF n >= Len(arr) THEN arr ELSE SubSeq(arr, 1, n)

\* jax.random.permutation(key, DLEN): the permutations of 0..DLEN-1
Permutations(DLEN) ==
    {p \in [1..DLEN -> 0..(DLEN - 1)] : \A i, j \in 1..DLEN : i # j => p[i] # p[j]}

\* Sampler.num_batches
num_batches_mut(DLEN, batch_size) == IF batch_size = None THEN 1 ELSE (DLEN + batch_size - 1) \div batch_size
num_batches(DLEN, batch_size) == IF batch_size = None THEN 1 ELSE DLEN \div batch_size

\* bindices = pindices[batch_num * self.batch_size :][: self.batch_size]
bindices(pindices, batch_num, batch_size) == SliceTo(SliceFrom(pindices, batch_num * batch_size), batch_size)

InitSampler ==
    /\ samp \in {[DLEN |-> d, batch_size |-> b, pc |-> "start", keys |-> 0, pindices |-> <<>>,
                  batch_num |-> 0, range |-> 0, out |-> <<>>] :
                    d \in 0..MaxData, b \in {None} \cup 1..MaxBatch}
    /\ GrowOff
    /\ IdxOff
    /\ mala = <<>>
    /\ sgd = <<>>
    /\ cyc = <<>>
    /\ main = <<>>
    /\ feat = <<>>
    /\ tb = <<>>
    /\ sel = <<>>
    /\ cfgfile = <<>>

SamplerFrame == UNCHANGED <<growVars, idxVars, mala, sgd, cyc, main, feat, tb, sel, cfgfile>>

\* the generator runs from its start to its first yield (or to its end): with
\* batch_size None it yields the dataset; otherwise it draws the permutation
\* and enters the loop
SamplerFirst ==
    /\ samp # <<>>
    /\ samp.pc = "start"
    /\ IF samp.batch_size = None
       THEN samp' = [samp EXCEPT !.pc = "yielded_all", !.out = <<[i \in 1..samp.DLEN |-> i - 1]>>]
       ELSE \E p \in Permutations(samp.DLEN) :
                LET n == num_batches(samp.DLEN, samp.batch_size)
                IN  samp' = IF n > 0
                            THEN [samp EXCEPT !.pc = "yielded", !.keys = @ + 1, !.pindices = p, !.range = n,
                                              !.out = <<bindices(p, 0, samp.batch_size)>>]
                            ELSE [samp EXCEPT !.pc = "done", !.keys = @ + 1, !.pindices = p, !.range = n]
    /\ SamplerFrame

\* the generator is resumed after a yield: the next batch of the loop, or the
\* end of the pass
SamplerResume ==
    /\ samp # <<>>
    /\ samp.pc \in {"yielded", "yielded_all"}
    /\ IF samp.pc = "yielded_all"
       THEN samp' = [samp EXCEPT !.pc = "done"]
       ELSE IF samp.batch_num + 1 < samp.range
            THEN samp' = [samp EXCEPT !.batch_num = @ + 1,
                                      !.out = Append(@, bindices(samp.pindices, samp.batch_num + 1, samp.batch_size))]
            ELSE samp' = [samp EXCEPT !.pc = "done"]
    /\ SamplerFrame

NextSampler == SamplerFirst \/ SamplerResume

SpecSampler == InitSampler /\ [][NextSampler]_vars

-----------------------------------------------------------------------------
(* One pass of Sampler.batches(), checked under SpecSampler *)

SamplesOf(batch) == {batch[k] : k \in DOMAIN batch}

\* C25: for every dataset length D and batch size B (a positive integer), a
\* pass of batches() never yields more than num_batches() batches, and when it
\* ends it has yielded exactly num_batches() = floor(D/B) batches of exactly B
\* samples each, every batch a slice of the one permutation drawn with the
\* one key the pass took from the key stream, so that no sample index is in
\* two batches; with batch_size None it has yielded exactly one batch, the
\* whole dataset, and taken no key.
C25_Batches ==
    samp # <<>> =>
        /\ Len(samp.out) <= num_batches(samp.DLEN, samp.batch_size)
        /\ (samp.pc = "done" /\ samp.batch_size # None) =>
            /\ Len(samp.out) = samp.DLEN \div samp.batch_size
            /\ samp.keys = 1
            /\ samp.pindices \in Permutations(samp.DLEN)
            /\ \A n \in DOMAIN samp.out :
                /\ Len(samp.out[n]) = samp.batch_size
                /\ \A k \in 1..samp.batch_size :
                    samp.out[n][k] = samp.pindices[(n - 1) * samp.batch_size + k]
            /\ \A n, m \in DOMAIN samp.out : n # m => SamplesOf(samp.out[n]) \cap SamplesOf(samp.out[m]) = {}
        /\ (samp.pc = "done" /\ samp.batch_size = None) =>
            /\ Len(samp.out) = 1
            /\ samp.out[1] = [i \in 1..samp.DLEN |-> i - 1]
            /\ samp.keys = 0

C25_Witness ==
    /\ samp # <<>>
    /\ samp.pc = "done"
    /\ samp.DLEN = 4
    /\ samp.batch_size = 3
    /\ Len(samp.out) = 1
    /\ Len(samp.out[1]) = 3
    /\ samp.keys = 1

-----------------------------------------------------------------------------
(* SpecYaml: modify_yaml_line and run_experiment of the experiment drivers   *)
(* (experiment_executer.py, experiment_executer2.py).  The configuration     *)
(* file is its text, a sequence of characters; readlines() cuts it after     *)
(* every newline and writelines() joins the lines again.  cfgfile.script is  *)
(* the driver (1 or 2), cfgfile.before the text before the call.             *)

MaxLines == 2
MaxSeed == 1

Whitespace == {" ", "\n", "\t"}

CharsOf(s) == {s[k] : k \in DOMAIN s}

\* file.readlines()
RECURSIVE readlines(_)
readlines(text) ==
    IF text = <<>> THEN <<>>
    ELSE IF "\n" \in CharsOf(text)
         THEN LET k == Min({j \in DOMAIN text : text[j] = "\n"})
              IN  <<SubSeq(text, 1, k)>> \o readlines(SubSeq(text, k + 1, Len(text)))
         ELSE <<text>>

\* file.writelines(lines)
RECURSIVE writelines(_)
writelines(lines) == IF lines = <<>> THEN <<>> ELSE Head(lines) \o writelines(Tail(lines))

RECURSIVE lstrip(_, _)
lstrip(s, chars) == IF s # <<>> /\ Head(s) \in chars THEN lstrip(Tail(s), chars) ELSE s

\* str.rstrip(chars): drops the trailing characters that belong to chars
RECURSIVE rstrip(_, _)
rstrip(s, chars) ==
    IF s # <<>> /\ s[Len(s)] \in chars THEN rstrip(SubSeq(s, 1, Len(s) - 1), chars) ELSE s

\* str.strip()
strip(s) == rstrip(lstrip(s, Whitespace), Whitespace)

startswith(s, prefix) == Len(s) >= Len(prefix) /\ SubSeq(s, 1, Len(prefix)) = prefix

\* line.split(":", 1)
split_colon(line) ==
    IF ":" \in CharsOf(line)
    THEN LET k == Min({j \in DOMAIN line : line[j] = ":"})
         IN  <<SubSeq(line, 1, k - 1), SubSeq(line, k + 1, Len(line))>>
    ELSE <<line>>

Digits == <<"0", "1", "2", "3", "4", "5", "6", "7", "8", "9">>

\* str(n) of a non-negative integer
RECURSIVE str_int(_)
str_int(n) == IF n < 10 THEN <<Digits[n + 1]>> ELSE str_int(n \div 10) \o <<Digits[(n % 10) + 1]>>

IntValue(n) == [type |-> "int", val |-> n]
StrValue(s) == [type |-> "str", val |-> s]

\* {new_value} inside the f-string
format(new_value) == IF new_value.type = "int" THEN str_int(new_value.val) ELSE new_value.val

\* whitespace = parts[0].rstrip(start_string)
whitespace_of(line, start_string) == rstrip(split_colon(line)[1], CharsOf(start_string))

modify_yaml_line(text, start_string, new_value) ==
    LET lines == readlines(text)
        matching == {i \in DOMAIN lines : startswith(strip(lines[i]), start_string)}
    IN  IF matching = {}
        THEN writelines(lines)
        ELSE LET i == Min(matching)
                 whitespace == whitespace_of(lines[i], start_string)
             IN  writelines([lines EXCEPT ![i] = whitespace \o start_string \o <<":", " ">>
                                                    \o format(new_value) \o <<"\n">>])

Seed == <<"s", "e", "e", "d">>
Contents == <<"c", "o", "n", "t", "e", "n", "t", "s">>

ArchOne == <<"[", "1", "]">>
ArchNulls == <<"[", "n", "u", "l", "l", ",", " ", "n", "u", "l", "l", ",", " ", "n", "u", "l", "l", "]">>

\* read_architecture: str(architecture) of the first experiment's final architecture
Architectures == {ArchOne, <<"[", "2", ",", " ", "1", "]">>}

\* the contents run_experiment writes back at its end
RestoredContents(script) == IF script = 1 THEN ArchOne ELSE ArchNulls

run_experiment(text, script, seed, new_architecture) ==
    LET seeded == modify_yaml_line(text, Seed, IntValue(seed))
        fixed == modify_yaml_line(seeded, Contents, StrValue(new_architecture))
        reseeded == modify_yaml_line(fixed, Seed, IntValue(0))
    IN  modify_yaml_line(reseeded, Contents, StrValue(RestoredContents(script)))

\* the lines a configuration file is made of
Indents == {<<>>, <<" ", " ">>}
Keys == {Seed, Seed \o <<"_", "x">>, Contents}
Tails == {<<":", " ", "0", "\n">>, <<":", " ", "1", "\n">>, <<":", " ">> \o ArchOne \o <<"\n">>,
          <<"\n">>, <<":", " ", "0">>}
ConfigLines == {ind \o key \o tail : ind \in Indents, key \in Keys, tail \in Tails}

RECURSIVE ConfigFiles(_)
ConfigFiles(n) ==
    IF n = 0 THEN {<<>>}
    ELSE ConfigFiles(n - 1) \cup
         {text \o line : text \in {t \in ConfigFiles(n - 1) : t = <<>> \/ t[Len(t)] = "\n"},
                         line \in ConfigLines}

StartStrings == {Seed, Contents}
NewValues == {IntValue(0), IntValue(1), StrValue(ArchOne)}

NoCall == [op |-> "none", start_string |-> <<>>, new_value |-> <<>>, seed |-> None, script |-> None]

InitYaml ==
    /\ cfgfile \in {[text |-> text, before |-> text, pc |-> "start", call |-> NoCall] :
                        text \in ConfigFiles(MaxLines)}
    /\ GrowOff
    /\ IdxOff
    /\ mala = <<>>
    /\ sgd = <<>>
    /\ cyc = <<>>
    /\ main = <<>>
    /\ feat = <<>>
    /\ tb = <<>>
    /\ sel = <<>>
    /\ samp = <<>>

YamlFrame == UNCHANGED <<growVars, idxVars, mala, sgd, cyc, main, feat, tb, sel, samp>>

\* one call of modify_yaml_line(config_path, start_string, new_value)
ModifyYamlLine ==
    /\ cfgfile # <<>>
    /\ cfgfile.pc = "start"
    /\ \E start_string \in StartStrings, new_value \in NewValues :
        cfgfile' = [text |-> modify_yaml_line(cfgfile.text, start_string, new_value),
                    before |-> cfgfile.text, pc |-> "modified",
                    call |-> [op |-> "modify_yaml_line", start_string |-> start_string,
                              new_value |-> new_value, seed |-> None, script |-> None]]
    /\ YamlFrame

\* one call of run_experiment(seed) of either driver
RunExperiment ==
    /\ cfgfile # <<>>
    /\ cfgfile.pc = "start"
    /\ \E script \in {1, 2}, seed \in 0..MaxSeed, new_architecture \in Architectures :
        cfgfile' = [text |-> run_experiment(cfgfile.text, script, seed, new_architecture),
                    before |-> cfgfile.text, pc |-> "ran",
                    call |-> [op |-> "run_experiment", start_string |-> <<>>, new_value |-> <<>>,
                              seed |-> seed, script |-> script]]
    /\ YamlFrame

NextYaml == ModifyYamlLine \/ RunExperiment

SpecYaml == InitYaml /\ [][NextYaml]_vars

-----------------------------------------------------------------------------
(* The configuration file across the drivers' calls, checked under SpecYaml *)

Matching(text, start_string) ==
    {i \in DOMAIN readlines(text) : startswith(strip(readlines(text)[i]), start_string)}

\* the leading whitespace of a line
Indentation(line) == SubSeq(line, 1, Len(line) - Len(lstrip(line, Whitespace)))

\* C22: modify_yaml_line(file, start_string, new_value) rewrites only the first
\* line whose stripped text starts with start_string, replacing it by
\* '<original indentation>start_string: new_value', and leaves every other
\* line, the line order and the line count unchanged; when no line matches,
\* the file content is unchanged.
C22_Original ==
    (cfgfile # <<>> /\ cfgfile.pc = "modified") =>
        LET old == readlines(cfgfile.before)
            new == readlines(cfgfile.text)
            matching == Matching(cfgfile.before, cfgfile.call.start_string)
        IN  IF matching = {}
            THEN cfgfile.text = cfgfile.before
            ELSE LET i == Min(matching)
                 IN  /\ Len(new) = Len(old)
                     /\ \A j \in DOMAIN old : j # i => new[j] = old[j]
                     /\ new[i] = Indentation(old[i]) \o cfgfile.call.start_string \o <<":", " ">>
                                    \o format(cfgfile.call.new_value) \o <<"\n">>

\* the value held by the first line of the text whose stripped text starts with
\* start_string: what follows its first colon, stripped
LineValue(text, start_string) ==
    LET lines == readlines(text)
        matching == Matching(text, start_string)
    IN  IF matching = {}
        THEN [found |-> FALSE, value |-> <<>>]
        ELSE LET parts == split_colon(lines[Min(matching)])
             IN  [found |-> TRUE, value |-> IF Len(parts) = 2 THEN strip(parts[2]) ELSE <<>>]

\* C21: after run_experiment(seed) finishes, the configuration file's seed line
\* and contents line hold the same values they held before the call, for every
\* seed and every initial configuration.
C21_Original ==
    (cfgfile # <<>> /\ cfgfile.pc = "ran") =>
        /\ LineValue(cfgfile.text, Seed) = LineValue(cfgfile.before, Seed)
        /\ LineValue(cfgfile.text, Contents) = LineValue(cfgfile.before, Contents)

====
